---- MODULE Spec2Model ----
(***************************************************************************)
(* watchdog_exporter: the probing Engine and its Store (package prober),   *)
(* the metrics lifecycle manager WDMetrics (package metrics), and the pure *)
(* status derivation policy.                                               *)
(*                                                                         *)
(* Strings are TLA+ strings: keys are built by concatenation as the code   *)
(* does, and the TLS substring heuristics run Contains on the lower-cased  *)
(* error text.  Label values are free of the separator byte.  Time is a    *)
(* logical clock (`now`), durations and days are integers.                 *)
(***************************************************************************)
EXTENDS Integers, Sequences, FiniteSets, TLC

(* ------------------------------ bounds --------------------------------- *)
MaxTime == 1          \* sequential calls: the clock stops here
MaxProbes == 2        \* engine: at most MaxProbes probes complete
MaxConcProbes == 2    \* engine with WDMetrics and RebuildAll: probes that complete
MaxClock == 34        \* engine with deadlines tracked: the clock stops here
MaxFairTicks == 1     \* engine under fairness: ticks each endpoint loop begins
MaxLifeProbes == 1    \* engine from Start to its return: probes that complete
MaxPuts == 3          \* Store on its own: Put calls
MaxJitterNs == 64     \* jitter on its own: ranges up to this many ns are drawn in full

(* ------------------------- generic map helpers ------------------------- *)
MapSet(f, k, v) == [x \in (DOMAIN f) \cup {k} |-> IF x = k THEN v ELSE f[x]]
MapDel(f, k) == [x \in (DOMAIN f) \ {k} |-> f[x]]
EmptyMap == [x \in {} |-> 0]
Range(s) == {s[i] : i \in DOMAIN s}
\* the element of a one-element set: The({e(x) : x \in {v}}) is e with x
\* standing for the value of v, which is computed once
The(S) == CHOOSE x \in S : TRUE

(* ----------------------------- strings --------------------------------- *)
NUL == "\\0"
NilErr == "<nil>"

LowerChar(c) ==
    CASE c = "A" -> "a" [] c = "B" -> "b" [] c = "C" -> "c" [] c = "D" -> "d"
      [] c = "E" -> "e" [] c = "F" -> "f" [] c = "G" -> "g" [] c = "H" -> "h"
      [] c = "I" -> "i" [] c = "J" -> "j" [] c = "K" -> "k" [] c = "L" -> "l"
      [] c = "M" -> "m" [] c = "N" -> "n" [] c = "O" -> "o" [] c = "P" -> "p"
      [] c = "Q" -> "q" [] c = "R" -> "r" [] c = "S" -> "s" [] c = "T" -> "t"
      [] c = "U" -> "u" [] c = "V" -> "v" [] c = "W" -> "w" [] c = "X" -> "x"
      [] c = "Y" -> "y" [] c = "Z" -> "z"
      [] OTHER -> c

UpperChar(c) ==
    LET lo == "abcdefghijklmnopqrstuvwxyz"
        up == "ABCDEFGHIJKLMNOPQRSTUVWXYZ"
    IN IF \E i \in 1..26 : SubSeq(lo, i, i) = c
       THEN LET i == CHOOSE j \in 1..26 : SubSeq(lo, j, j) = c IN SubSeq(up, i, i)
       ELSE c

\* strings.ToLower, character by character: the characters i..j of s in lower
\* case, joined by halves
RECURSIVE LowerRange(_, _, _)
LowerRange(s, i, j) ==
    IF i > j THEN ""
    ELSE IF i = j THEN LowerChar(SubSeq(s, i, i))
    ELSE LowerRange(s, i, (i + j) \div 2) \o LowerRange(s, ((i + j) \div 2) + 1, j)

ToLower(s) == The({LowerRange(str, 1, Len(str)) : str \in {s}})

\* strings.Contains
Contains(s, t) ==
    \E str \in {s} :
       \E i \in 1..(Len(str) - Len(t) + 1) : SubSeq(str, i, i + Len(t) - 1) = t

(* --------------------------- TLS reports ------------------------------- *)
\* *validator.CertsReport; Nil marks the nil pointer.
NilReport == [Nil |-> TRUE, HadTLS |-> FALSE, ChainValid |-> FALSE, Certificates |-> <<>>]

\* x509 certificates a server may present: NotAfter in days on the clock.
LeafA == [Serial |-> "0A", CN |-> "svc.local", NotAfter |-> 10, IsCA |-> FALSE, IssuerCN |-> "R12"]
LeafB == [Serial |-> "0B", CN |-> "svc.local", NotAfter |-> 2, IsCA |-> FALSE, IssuerCN |-> "R12"]
CaR12 == [Serial |-> "C1", CN |-> "R12", NotAfter |-> 20, IsCA |-> TRUE, IssuerCN |-> "Root"]

\* tls.ConnectionState of a response: resp.TLS (HasTLS = FALSE is resp.TLS == nil).
NoConnState == [HasTLS |-> FALSE, VerifiedChains |-> <<>>, PeerCertificates |-> <<>>]
ConnStates ==
    { [HasTLS |-> TRUE, VerifiedChains |-> <<<<LeafA, CaR12>>>>, PeerCertificates |-> <<LeafA>>],
      [HasTLS |-> TRUE, VerifiedChains |-> <<<<LeafB, CaR12>>>>, PeerCertificates |-> <<LeafB>>],
      [HasTLS |-> TRUE, VerifiedChains |-> <<>>, PeerCertificates |-> <<LeafA>>] }

\* a peer certificate list counts as a verified chain
InspectPeerListAsValid(cs, t) ==
    IF ~cs.HasTLS
    THEN [Nil |-> FALSE, HadTLS |-> FALSE, ChainValid |-> FALSE, Certificates |-> <<>>]
    ELSE LET chosen == IF Len(cs.VerifiedChains) > 0 /\ Len(cs.VerifiedChains[1]) > 0
                       THEN cs.VerifiedChains[1]
                       ELSE IF Len(cs.PeerCertificates) > 0 THEN cs.PeerCertificates
                       ELSE <<>>
         IN [Nil |-> FALSE,
             HadTLS |-> TRUE,
             ChainValid |-> Len(cs.VerifiedChains) > 0 \/ Len(cs.PeerCertificates) > 0,
             Certificates |->
                [i \in 1..Len(chosen) |->
                    [Position |-> i - 1,
                     SerialHex |-> chosen[i].Serial,
                     CommonName |-> chosen[i].CN,
                     DaysLeft |-> chosen[i].NotAfter - t,
                     IsCA |-> chosen[i].IsCA,
                     IssuerCN |-> chosen[i].IssuerCN]]]

\* DefaultTLSChecker.Inspect on resp.TLS at time t
Inspect(cs, t) ==
    IF ~cs.HasTLS
    THEN [Nil |-> FALSE, HadTLS |-> FALSE, ChainValid |-> FALSE, Certificates |-> <<>>]
    ELSE LET chosen == IF Len(cs.VerifiedChains) > 0 /\ Len(cs.VerifiedChains[1]) > 0
                       THEN cs.VerifiedChains[1]
                       ELSE IF Len(cs.PeerCertificates) > 0 THEN cs.PeerCertificates
                       ELSE <<>>
         IN [Nil |-> FALSE,
             HadTLS |-> TRUE,
             ChainValid |-> Len(cs.VerifiedChains) > 0,
             Certificates |->
                [i \in 1..Len(chosen) |->
                    [Position |-> i - 1,
                     SerialHex |-> chosen[i].Serial,
                     CommonName |-> chosen[i].CN,
                     DaysLeft |-> chosen[i].NotAfter - t,
                     IsCA |-> chosen[i].IsCA,
                     IssuerCN |-> chosen[i].IssuerCN]]]

(* ----------------------- status derivation policy ---------------------- *)
mapTLSErrorToStatus(errMsg) ==
    LET m == ToLower(errMsg) IN
    IF Contains(m, "expired-cert-leaf") THEN "expired-cert-leaf"
    ELSE IF Contains(m, "invalid-tls-chain") THEN "invalid-tls-chain"
    ELSE IF Contains(m, "invalid-tls-hostname") THEN "invalid-tls-hostname"
    ELSE IF Contains(m, "invalid-tls-certificate") THEN "invalid-tls-certificate"
    ELSE IF Contains(m, "unknownauthorityerror") THEN "invalid-tls-unknown-authority"
    ELSE IF Contains(m, "certificateinvaliderror") THEN "invalid-tls-certificate"
    ELSE IF Contains(m, "hostnameerror") THEN "invalid-tls-hostname"
    ELSE IF Contains(m, "handshake") THEN "invalid-tls-handshake"
    ELSE IF Contains(m, "tls") THEN "invalid-tls-other"
    ELSE ""

deriveStatusSkipsChain(r) ==
    IF ~r.TLS.Nil /\ ~r.TLS.HadTLS THEN "invalid-tls-missing"
    ELSE IF r.Err # NilErr /\ mapTLSErrorToStatus(r.Err) # "" THEN mapTLSErrorToStatus(r.Err)
    ELSE IF ~r.TLS.Nil /\ ~r.TLS.ChainValid THEN "invalid-tls-chain"
    ELSE IF r.Status # "" THEN r.Status
    ELSE IF r.Err # NilErr THEN "unknown-error"
    ELSE "valid"

deriveStatus(r) ==
    IF ~r.TLS.Nil /\ ~r.TLS.HadTLS THEN "invalid-tls-missing"
    ELSE IF ~r.TLS.Nil /\ ~r.TLS.ChainValid THEN "invalid-tls-chain"
    ELSE IF r.Err # NilErr /\ mapTLSErrorToStatus(r.Err) # "" THEN mapTLSErrorToStatus(r.Err)
    ELSE IF r.Status # "" THEN r.Status
    ELSE IF r.Err # NilErr THEN "unknown-error"
    ELSE "valid"

(* ----------------------------- configuration --------------------------- *)
\* cfg.Endpoints / cfg.Routes as loaded from YAML: two endpoints, ep1 over two
\* routes and ep2 over one.
Endpoints == {"ep1", "ep2"}
EndpointCfg(ep) ==
    IF ep = "ep1"
    THEN [Group |-> "g", Protocol |-> "https", URL |-> "https://svc.local",
          Routes |-> <<"r1", "r2">>, InspectTLSCerts |-> TRUE]
    ELSE [Group |-> "g", Protocol |-> "http", URL |-> "http://b.local",
          Routes |-> <<"r1">>, InspectTLSCerts |-> FALSE]

\* settings.max-workers-count of the configuration under study
MaxWorkersCount == 1

Threads == {"main"} \cup Endpoints
NoThread == "none"

(* ------------------------------- state --------------------------------- *)
VARIABLES
    now,            \* the clock (time.Now), in ticks
    items,          \* Store.items: key -> Result
    buildInfo,      \* WDMetrics.BuildInfo gauge value
    ts,             \* EndpointLastProbeTimestamp: base labels -> value
    val,            \* EndpointValidation: result labels -> value
    dur,            \* EndpointDuration: result labels -> value
    cert,           \* EndpointTLSCertDaysLeft: cert labels -> value
    lastByKey,      \* WDMetrics.lastByKey
    lastCertByKey,  \* WDMetrics.lastCertByKey
    lastMu,         \* holder of WDMetrics.lastMu
    lastCertMu,     \* holder of WDMetrics.lastCertMu
    pc,             \* per thread: position in the code
    cur,            \* per thread: the Result argument of the running OnResult
    lbl,            \* per thread: lblAll, the label set the running OnResult computed
    ret,            \* per thread: where the running OnResult returns to
    rbResults,      \* RebuildAll: the snapshot still to replay
    dsIn, dsOut,    \* deriveStatus applied on its own: argument and result
    vrIn, vrOut,    \* ValidateResponse applied on its own: arguments and result
    hist,           \* history: state at the last RebuildAll call, last operation
    subs,           \* Engine.subs
    subsReaders,    \* goroutines holding Engine.muSubs.RLock
    cancelled,      \* ctx.Done() is closed
    lastResults,    \* Engine.lastResults: key -> last error text
    routeIdx,       \* per endpoint loop: index of the route being probed
    subIdx,         \* per endpoint loop: index of the subscriber notify is at
    res,            \* per endpoint loop: the Result probeOnce has built
    inflight,       \* requests dispatched and not yet completed: <<endpoint, route>>
    seen,           \* history: per subscriber, the Results its OnResult received
    ehist,          \* history: Results put / fully notified, the tick in progress
    storeMu,        \* Store.mu: the writer holding it, the readers holding it
    sOut, sRem,     \* Snapshot in progress: the slice built, the keys still to range over
    snap,           \* the slice a reader got from Snapshot, and the puts made until then
    cap,            \* the number of Results the run may build
    env,            \* the run's configuration and surroundings, fixed from the start
    timer,          \* per endpoint loop: the time.Timer of runEndpointLoop
    ticks,          \* history: per endpoint loop, ticks begun, the clock at the last two
    loop,           \* per endpoint loop: the locals interval and jit of runEndpointLoop
    vaIn, vaOut,    \* Validate applied on its own: arguments, and the request and return
    tcIn, tcOut,    \* a TLSChecker method applied on its own: argument and result
    lgOut           \* logOnTransition called on its own: the entry it printed, for what

metricVars == <<buildInfo, ts, val, dur, cert, lastByKey, lastCertByKey, lastMu, lastCertMu>>
callVars == <<vaIn, vaOut, tcIn, tcOut, lgOut>>
deriveVars == <<dsIn, dsOut, vrIn, vrOut, callVars>>
storeVars == <<storeMu, sOut, sRem, snap, cap>>
schedVars == <<env, timer, ticks, loop>>
engineVars == <<subs, subsReaders, cancelled, lastResults, routeIdx, subIdx, res, inflight,
                seen, ehist, storeVars, schedVars>>
vars == <<now, items, metricVars, pc, cur, lbl, ret, rbResults, deriveVars, hist, engineVars>>

(* ------------------------------- Results -------------------------------- *)
NoResult == [Group |-> "", Endpoint |-> "", Protocol |-> "", URL |-> "", Route |-> "",
             Status |-> "", Duration |-> 0, Err |-> NilErr, TLS |-> NilReport, At |-> 0]

\* Store.keyOf / Engine.keyOf
keyOf(r) == r.Group \o NUL \o r.Endpoint \o NUL \o r.Route \o NUL \o r.Protocol \o NUL \o r.URL

\* metrics.baseKeyOf
baseKeyOf(r) == r.Group \o NUL \o r.Endpoint \o NUL \o r.Protocol \o NUL \o r.URL \o NUL \o r.Route

\* the target a Result is about, as a tuple of its five identifying fields
TargetOf(r) == <<r.Group, r.Endpoint, r.Route, r.Protocol, r.URL>>

(* -------------------------------- Store --------------------------------- *)
\* a Put that keeps the earlier Result of the key
StorePutAppends(m, r) == MapSet(m, keyOf(r) \o NUL \o ToString(r.At), r)

\* a Put that keys the entry by the status as well
StorePutPerStatus(m, r) == MapSet(m, keyOf(r) \o NUL \o r.Status, r)

\* s.items[s.keyOf(r)] = r
StorePut(m, r) == MapSet(m, keyOf(r), r)

RECURSIVE Orderings(_)
Orderings(S) ==
    IF S = {} THEN {<<>>}
    ELSE UNION {{<<x>> \o o : o \in Orderings(S \ {x})} : x \in S}

\* Store.Snapshot: a fresh slice of the values, in map iteration order (any order).
StoreSnapshot(m) == Orderings({m[k] : k \in DOMAIN m})

(* ------------------------------ label sets ------------------------------ *)
\* is_error taken from the derived status instead of r.Err
isErrOfStatus(r) == IF deriveStatus(r) # "valid" THEN "true" ELSE "false"

\* isErr := "false"; if r.Err != nil { isErr = "true" }
isErrOf(r) == IF r.Err # NilErr THEN "true" ELSE "false"

lblBaseOf(r) ==
    [group |-> r.Group, endpoint |-> r.Endpoint, protocol |-> r.Protocol,
     url |-> r.URL, route |-> r.Route]

lblAllOf(r) ==
    [group |-> r.Group, endpoint |-> r.Endpoint, protocol |-> r.Protocol,
     url |-> r.URL, route |-> r.Route, status |-> deriveStatus(r), is_error |-> isErrOf(r)]

\* strconv.Itoa for the non-negative chain positions
Digit(d) == SubSeq("0123456789", d + 1, d + 1)
RECURSIVE Itoa(_)
Itoa(n) == IF n < 10 THEN Digit(n) ELSE Itoa(n \div 10) \o Digit(n % 10)

\* fmt.Sprintf("%v", bool)
FmtBool(b) == IF b THEN "true" ELSE "false"

lblCertOf(r, c) ==
    [group |-> r.Group, endpoint |-> r.Endpoint, protocol |-> r.Protocol,
     url |-> r.URL, route |-> r.Route,
     cert_position |-> Itoa(c.Position), cert_serial |-> c.SerialHex,
     cert_cn |-> c.CommonName, cert_is_ca |-> FmtBool(c.IsCA),
     cert_issuer_cn |-> c.IssuerCN]

\* GaugeVec.Delete of a list of label sets
RECURSIVE DeleteAll(_, _)
DeleteAll(vec, ls) ==
    IF ls = <<>> THEN vec ELSE DeleteAll(MapDel(vec, Head(ls)), Tail(ls))

\* buildAndSetCertSeries: the vector after the Sets, and the label sets created
RECURSIVE SetCertSeries(_, _, _)
SetCertSeries(vec, r, cs) ==
    IF cs = <<>> THEN vec
    ELSE SetCertSeries(MapSet(vec, lblCertOf(r, Head(cs)), Head(cs).DaysLeft), r, Tail(cs))

CertLabelList(r) == [i \in 1..Len(r.TLS.Certificates) |-> lblCertOf(r, r.TLS.Certificates[i])]

(* --------------------------- WDMetrics.OnResult ------------------------- *)
Goto(t, l) == pc' = [pc EXCEPT ![t] = l]

\* the timestamp gauge set to the time of the call instead of r.At
OnResult_SetTimestampFromClock(t) ==
    /\ pc[t] = "or_ts"
    /\ ts' = MapSet(ts, lblBaseOf(cur[t]), now)
    /\ lbl' = [lbl EXCEPT ![t] = lblAllOf(cur[t])]
    /\ Goto(t, "or_delV")
    /\ UNCHANGED <<now, items, buildInfo, val, dur, cert, lastByKey, lastCertByKey,
                   lastMu, lastCertMu, cur, ret, rbResults, deriveVars, hist, engineVars>>

\* the timestamp gauge set only for a Result without error
OnResult_SetTimestampOnSuccess(t) ==
    /\ pc[t] = "or_ts"
    /\ ts' = IF cur[t].Err = NilErr THEN MapSet(ts, lblBaseOf(cur[t]), cur[t].At) ELSE ts
    /\ lbl' = [lbl EXCEPT ![t] = lblAllOf(cur[t])]
    /\ Goto(t, "or_delV")
    /\ UNCHANGED <<now, items, buildInfo, val, dur, cert, lastByKey, lastCertByKey,
                   lastMu, lastCertMu, cur, ret, rbResults, deriveVars, hist, engineVars>>

\* m.EndpointLastProbeTimestamp.With(lblBase).Set(r.At.Unix()); lblAll is built
OnResult_SetTimestamp(t) ==
    /\ pc[t] = "or_ts"
    /\ ts' = MapSet(ts, lblBaseOf(cur[t]), cur[t].At)
    /\ lbl' = [lbl EXCEPT ![t] = lblAllOf(cur[t])]
    /\ Goto(t, "or_delV")
    /\ UNCHANGED <<now, items, buildInfo, val, dur, cert, lastByKey, lastCertByKey,
                   lastMu, lastCertMu, cur, ret, rbResults, deriveVars, hist, engineVars>>

\* lastMu taken, the previous validation series left in place
OnResult_LockKeepValidation(t) ==
    /\ pc[t] = "or_delV"
    /\ lastMu = NoThread
    /\ lastMu' = t
    /\ Goto(t, "or_delD")
    /\ UNCHANGED <<now, items, buildInfo, ts, val, dur, cert, lastByKey, lastCertByKey,
                   lastCertMu, cur, lbl, ret, rbResults, deriveVars, hist, engineVars>>

\* m.lastMu.Lock(); m.EndpointValidation.Delete(prev) if the key was tracked
OnResult_LockDeleteValidation(t) ==
    /\ pc[t] = "or_delV"
    /\ lastMu = NoThread
    /\ lastMu' = t
    /\ val' = IF baseKeyOf(cur[t]) \in DOMAIN lastByKey
              THEN MapDel(val, lastByKey[baseKeyOf(cur[t])])
              ELSE val
    /\ Goto(t, "or_delD")
    /\ UNCHANGED <<now, items, buildInfo, ts, dur, cert, lastByKey, lastCertByKey,
                   lastCertMu, cur, lbl, ret, rbResults, deriveVars, hist, engineVars>>

\* m.EndpointDuration.Delete(prev) if the key was tracked
OnResult_DeleteDuration(t) ==
    /\ pc[t] = "or_delD"
    /\ lastMu = t
    /\ dur' = IF baseKeyOf(cur[t]) \in DOMAIN lastByKey
              THEN MapDel(dur, lastByKey[baseKeyOf(cur[t])])
              ELSE dur
    /\ Goto(t, "or_record")
    /\ UNCHANGED <<now, items, buildInfo, ts, val, cert, lastByKey, lastCertByKey,
                   lastMu, lastCertMu, cur, lbl, ret, rbResults, deriveVars, hist, engineVars>>

\* m.lastByKey[key] = lblAll; m.lastMu.Unlock()
OnResult_RecordUnlock(t) ==
    /\ pc[t] = "or_record"
    /\ lastMu = t
    /\ lastByKey' = MapSet(lastByKey, baseKeyOf(cur[t]), lbl[t])
    /\ lastMu' = NoThread
    /\ Goto(t, "or_setV")
    /\ UNCHANGED <<now, items, buildInfo, ts, val, dur, cert, lastCertByKey,
                   lastCertMu, cur, lbl, ret, rbResults, deriveVars, hist, engineVars>>

\* m.EndpointValidation.With(lblAll).Set(1)
OnResult_SetValidation(t) ==
    /\ pc[t] = "or_setV"
    /\ val' = MapSet(val, lbl[t], 1)
    /\ Goto(t, "or_setD")
    /\ UNCHANGED <<now, items, buildInfo, ts, dur, cert, lastByKey, lastCertByKey,
                   lastMu, lastCertMu, cur, lbl, ret, rbResults, deriveVars, hist, engineVars>>

\* m.EndpointDuration.With(lblAll).Set(r.Duration)
OnResult_SetDuration(t) ==
    /\ pc[t] = "or_setD"
    /\ dur' = MapSet(dur, lbl[t], cur[t].Duration)
    /\ Goto(t, "or_certs")
    /\ UNCHANGED <<now, items, buildInfo, ts, val, cert, lastByKey, lastCertByKey,
                   lastMu, lastCertMu, cur, lbl, ret, rbResults, deriveVars, hist, engineVars>>

\* lastCertMu taken, the previous certificate series left in place
OnResult_LockKeepCerts(t) ==
    /\ pc[t] = "or_certs"
    /\ lastCertMu = NoThread
    /\ LET key == baseKeyOf(cur[t])
           tls == ~cur[t].TLS.Nil /\ cur[t].TLS.HadTLS
       IN /\ cert' = cert
          /\ IF tls
             THEN /\ lastCertMu' = t
                  /\ Goto(t, "or_setCerts")
                  /\ UNCHANGED lastCertByKey
             ELSE /\ lastCertMu' = NoThread
                  /\ lastCertByKey' = MapDel(lastCertByKey, key)
                  /\ Goto(t, ret[t])
    /\ UNCHANGED <<now, items, buildInfo, ts, val, dur, lastByKey, lastMu,
                   cur, lbl, ret, rbResults, deriveVars, hist, engineVars>>

\* m.lastCertMu.Lock(), then the Delete loop over the previous certificate
\* series; without TLS the key is forgotten, lastCertMu.Unlock, return.
OnResult_LockDeleteCerts(t) ==
    /\ pc[t] = "or_certs"
    /\ lastCertMu = NoThread
    /\ LET key == baseKeyOf(cur[t])
           tls == ~cur[t].TLS.Nil /\ cur[t].TLS.HadTLS
       IN /\ cert' = IF key \in DOMAIN lastCertByKey
                     THEN DeleteAll(cert, lastCertByKey[key])
                     ELSE cert
          /\ IF tls
             THEN /\ lastCertMu' = t
                  /\ Goto(t, "or_setCerts")
                  /\ UNCHANGED lastCertByKey
             ELSE /\ lastCertMu' = NoThread
                  /\ lastCertByKey' = MapDel(lastCertByKey, key)
                  /\ Goto(t, ret[t])
    /\ UNCHANGED <<now, items, buildInfo, ts, val, dur, lastByKey, lastMu,
                   cur, lbl, ret, rbResults, deriveVars, hist, engineVars>>

\* buildAndSetCertSeries, the assignment to lastCertByKey, lastCertMu.Unlock, return
OnResult_SetCertsUnlock(t) ==
    /\ pc[t] = "or_setCerts"
    /\ lastCertMu = t
    /\ cert' = SetCertSeries(cert, cur[t], cur[t].TLS.Certificates)
    /\ lastCertByKey' = MapSet(lastCertByKey, baseKeyOf(cur[t]), CertLabelList(cur[t]))
    /\ lastCertMu' = NoThread
    /\ Goto(t, ret[t])
    /\ UNCHANGED <<now, items, buildInfo, ts, val, dur, lastByKey, lastMu,
                   cur, lbl, ret, rbResults, deriveVars, hist, engineVars>>

OnResult(t) ==
    \/ OnResult_SetTimestamp(t)
    \/ OnResult_LockDeleteValidation(t)
    \/ OnResult_DeleteDuration(t)
    \/ OnResult_RecordUnlock(t)
    \/ OnResult_SetValidation(t)
    \/ OnResult_SetDuration(t)
    \/ OnResult_LockDeleteCerts(t)
    \/ OnResult_SetCertsUnlock(t)

(* -------------------------- WDMetrics.RebuildAll ------------------------ *)
RebuildAll_Snapshot(t) ==
    /\ pc[t] = "rb_snap"
    /\ \E o \in StoreSnapshot(items) : rbResults' = o
    /\ Goto(t, "rb_resetV")
    /\ UNCHANGED <<now, items, metricVars, cur, lbl, ret, deriveVars, hist, engineVars>>

RebuildAll_ResetValidation(t) ==
    /\ pc[t] = "rb_resetV"
    /\ val' = EmptyMap
    /\ Goto(t, "rb_resetD")
    /\ UNCHANGED <<now, items, buildInfo, ts, dur, cert, lastByKey, lastCertByKey,
                   lastMu, lastCertMu, cur, lbl, ret, rbResults, deriveVars, hist, engineVars>>

RebuildAll_ResetDuration(t) ==
    /\ pc[t] = "rb_resetD"
    /\ dur' = EmptyMap
    /\ Goto(t, "rb_resetT")
    /\ UNCHANGED <<now, items, buildInfo, ts, val, cert, lastByKey, lastCertByKey,
                   lastMu, lastCertMu, cur, lbl, ret, rbResults, deriveVars, hist, engineVars>>

RebuildAll_ResetTimestamp(t) ==
    /\ pc[t] = "rb_resetT"
    /\ ts' = EmptyMap
    /\ Goto(t, "rb_resetC")
    /\ UNCHANGED <<now, items, buildInfo, val, dur, cert, lastByKey, lastCertByKey,
                   lastMu, lastCertMu, cur, lbl, ret, rbResults, deriveVars, hist, engineVars>>

\* the build-info vector reset with the others: its series is gone (0)
RebuildAll_ResetCertsAndBuildInfo(t) ==
    /\ pc[t] = "rb_resetC"
    /\ cert' = EmptyMap
    /\ buildInfo' = 0
    /\ Goto(t, "rb_clearLast")
    /\ UNCHANGED <<now, items, ts, val, dur, lastByKey, lastCertByKey,
                   lastMu, lastCertMu, cur, lbl, ret, rbResults, deriveVars, hist, engineVars>>

\* m.EndpointTLSCertDaysLeft.Reset()
RebuildAll_ResetCerts(t) ==
    /\ pc[t] = "rb_resetC"
    /\ cert' = EmptyMap
    /\ Goto(t, "rb_clearLast")
    /\ UNCHANGED <<now, items, buildInfo, ts, val, dur, lastByKey, lastCertByKey,
                   lastMu, lastCertMu, cur, lbl, ret, rbResults, deriveVars, hist, engineVars>>

RebuildAll_ClearLastByKey(t) ==
    /\ pc[t] = "rb_clearLast"
    /\ lastMu = NoThread
    /\ lastByKey' = EmptyMap
    /\ Goto(t, "rb_clearCert")
    /\ UNCHANGED <<now, items, buildInfo, ts, val, dur, cert, lastCertByKey,
                   lastMu, lastCertMu, cur, lbl, ret, rbResults, deriveVars, hist, engineVars>>

RebuildAll_ClearLastCertByKey(t) ==
    /\ pc[t] = "rb_clearCert"
    /\ lastCertMu = NoThread
    /\ lastCertByKey' = EmptyMap
    /\ Goto(t, "rb_replay")
    /\ UNCHANGED <<now, items, buildInfo, ts, val, dur, cert, lastByKey,
                   lastMu, lastCertMu, cur, lbl, ret, rbResults, deriveVars, hist, engineVars>>

\* the range over results ends without a call of OnResult
RebuildAll_ReplayNothing(t) ==
    /\ pc[t] = "rb_replay"
    /\ rbResults' = <<>>
    /\ Goto(t, "idle")
    /\ UNCHANGED <<now, items, metricVars, cur, lbl, ret, deriveVars, hist, engineVars>>

\* for _, r := range results { m.OnResult(r) }
RebuildAll_Replay(t) ==
    /\ pc[t] = "rb_replay"
    /\ IF rbResults # <<>>
       THEN /\ cur' = [cur EXCEPT ![t] = Head(rbResults)]
            /\ ret' = [ret EXCEPT ![t] = "rb_replay"]
            /\ rbResults' = Tail(rbResults)
            /\ Goto(t, "or_ts")
       ELSE /\ Goto(t, "idle")
            /\ UNCHANGED <<cur, ret, rbResults>>
    /\ UNCHANGED <<now, items, metricVars, lbl, deriveVars, hist, engineVars>>

RebuildAll(t) ==
    \/ RebuildAll_Snapshot(t)
    \/ RebuildAll_ResetValidation(t)
    \/ RebuildAll_ResetDuration(t)
    \/ RebuildAll_ResetTimestamp(t)
    \/ RebuildAll_ResetCerts(t)
    \/ RebuildAll_ClearLastByKey(t)
    \/ RebuildAll_ClearLastCertByKey(t)
    \/ RebuildAll_Replay(t)

(* ------------------------ Results a caller may pass --------------------- *)
\* endpoint.Request.URL: env.badURL names the endpoints configured with a URL
\* that url.Parse rejects
RequestURL(ep) == IF ep \in env.badURL THEN "://" \o ep ELSE EndpointCfg(ep).URL

\* The Result literal of Engine.probeOnce
MkResult(ep, route, status, duration, err, tls, at) ==
    [Group |-> EndpointCfg(ep).Group, Endpoint |-> ep, Protocol |-> EndpointCfg(ep).Protocol,
     URL |-> RequestURL(ep), Route |-> route,
     Status |-> status, Duration |-> duration, Err |-> err, TLS |-> tls, At |-> at]

\* (status, err) pairs as Validate returns them
StatusErrs ==
    {<<"valid", NilErr>>,
     <<"unexpected-status-code", NilErr>>,
     <<"invalid-request-execution", "dial tcp: connection refused">>}
Durations == {1, 2}
TLSReports(t) == {NilReport, Inspect(NoConnState, t)} \cup {Inspect(cs, t) : cs \in ConnStates}

\* Results handed to OnResult directly (as the package's tests do), stamped
\* with the current time: every combination for target (ep1, r1), two for
\* target (ep1, r2).
SeqResults ==
    {MkResult("ep1", "r1", se[1], d, se[2], tls, now) :
        se \in StatusErrs, d \in Durations, tls \in TLSReports(now)}
    \cup
    {MkResult("ep1", "r2", "valid", 1, NilErr, NilReport, now),
     MkResult("ep1", "r2", "unexpected-status-code", 2, NilErr,
              Inspect(CHOOSE cs \in ConnStates : Len(cs.VerifiedChains) = 0, now), now)}

(* --------------------- deriveStatus applied on its own ------------------ *)
DeriveErrTexts ==
    {NilErr,
     "dial tcp: connection refused",
     "context deadline exceeded",
     "expired-cert-leaf: x509: certificate has expired",
     "invalid-tls-chain: handshake",
     "invalid-tls-hostname",
     "invalid-tls-certificate",
     "x509.UnknownAuthorityError",
     "x509.CertificateInvalidError",
     "x509.HostnameError in TLS",
     "remote error: tls: handshake failure",
     "net/http: TLS handshake timeout",
     "tls: first record does not look like a TLS handshake",
     "TLS: oversized record"}

DeriveInputs ==
    {MkResult("ep1", "r1", st, 1, e, tls, 0) :
        st \in {"", "valid", "unexpected-body-regex"}, e \in DeriveErrTexts,
        tls \in TLSReports(0)}

NotDerived == "<none>"

ApplyDeriveStatus ==
    /\ dsOut = NotDerived
    /\ dsOut' = deriveStatus(dsIn)
    /\ UNCHANGED <<now, items, metricVars, pc, cur, lbl, ret, rbResults, dsIn, vrIn, vrOut, callVars,
                   hist, engineVars>>

(* ------------------------------ sequential ------------------------------ *)
\* What a scrape sees of the endpoint gauges, and the tracking maps.
Exported == [ts |-> ts, val |-> val, dur |-> dur, cert |-> cert]
Tracking == [lastByKey |-> lastByKey, lastCertByKey |-> lastCertByKey]

NoHist == [lastOp |-> "none", inRow |-> 0, superseded |-> "none",
           exported |-> [ts |-> EmptyMap, val |-> EmptyMap,
           dur |-> EmptyMap, cert |-> EmptyMap],
           tracking |-> [lastByKey |-> EmptyMap, lastCertByKey |-> EmptyMap]]

\* history only: what the Result of a call supersedes for its key
Supersedes(r) ==
    LET k == baseKeyOf(r)
        hadCerts == k \in DOMAIN lastCertByKey /\ lastCertByKey[k] # <<>>
    IN IF hadCerts /\ (r.TLS.Nil \/ ~r.TLS.HadTLS) THEN "certs-dropped"
       ELSE IF hadCerts /\ lastCertByKey[k] # CertLabelList(r) THEN "certs-changed"
       ELSE IF k \in DOMAIN lastByKey /\ lastByKey[k] # lblAllOf(r) THEN "labels-changed"
       ELSE "none"

\* time passes between two calls
Tick ==
    /\ pc["main"] = "idle"
    /\ now < MaxTime
    /\ now' = now + 1
    /\ UNCHANGED <<items, metricVars, pc, cur, lbl, ret, rbResults, deriveVars, hist, engineVars>>

\* store.Put(r); m.OnResult(r) called by one goroutine
CallPutOnResult ==
    /\ pc["main"] = "idle"
    /\ \E r \in SeqResults :
          /\ items' = StorePut(items, r)
          /\ cur' = [cur EXCEPT !["main"] = r]
          /\ hist' = [NoHist EXCEPT !.lastOp = "onresult", !.superseded = Supersedes(r)]
    /\ ret' = [ret EXCEPT !["main"] = "idle"]
    /\ Goto("main", "or_ts")
    /\ UNCHANGED <<now, metricVars, lbl, rbResults, deriveVars, engineVars>>

\* m.RebuildAll() called by the same goroutine
CallRebuildAll ==
    /\ pc["main"] = "idle"
    /\ Goto("main", "rb_snap")
    /\ hist' = [hist EXCEPT !.lastOp = "rebuild",
                             !.inRow = IF hist.inRow < 2 THEN hist.inRow + 1 ELSE 2,
                             !.exported = Exported, !.tracking = Tracking]
    /\ UNCHANGED <<now, items, metricVars, cur, lbl, ret, rbResults, deriveVars, engineVars>>

(* ---------------------- Store.Put / Store.Snapshot ---------------------- *)
\* Results a goroutine puts directly: any target of the configuration
StoreResults(ep, t) ==
    {MkResult(ep, route, st, 1, NilErr, NilReport, t) :
        route \in Range(EndpointCfg(ep).Routes), st \in {"ok", "new"}}

\* a goroutine calls Put(r)
Store_CallPut(w) ==
    /\ pc[w] = "idle"
    /\ now < cap
    /\ now' = now + 1
    /\ \E r \in StoreResults(w, now + 1) : res' = [res EXCEPT ![w] = r]
    /\ Goto(w, "put_lock")
    /\ UNCHANGED <<items, metricVars, cur, lbl, ret, rbResults, deriveVars, hist,
                   subs, subsReaders, cancelled, lastResults, routeIdx, subIdx, inflight,
                   seen, ehist, storeVars, schedVars>>

\* s.mu.Lock()
Store_PutLock(w) ==
    /\ pc[w] = "put_lock"
    /\ storeMu.writer = NoThread /\ storeMu.readers = {}
    /\ storeMu' = [storeMu EXCEPT !.writer = w]
    /\ Goto(w, "put_assign")
    /\ UNCHANGED <<now, items, metricVars, cur, lbl, ret, rbResults, deriveVars, hist,
                   subs, subsReaders, cancelled, lastResults, routeIdx, subIdx, res, inflight,
                   seen, ehist, sOut, sRem, snap, cap, schedVars>>

\* s.items[s.keyOf(r)] = r
Store_PutAssign(w) ==
    /\ pc[w] = "put_assign"
    /\ items' = StorePut(items, res[w])
    /\ ehist' = [ehist EXCEPT !.put = @ \cup {res[w]},
                              !.lastPut = MapSet(@, TargetOf(res[w]), res[w])]
    /\ Goto(w, "put_unlock")
    /\ UNCHANGED <<now, metricVars, cur, lbl, ret, rbResults, deriveVars, hist,
                   subs, subsReaders, cancelled, lastResults, routeIdx, subIdx, res, inflight,
                   seen, storeVars, schedVars>>

\* s.mu.Unlock()
Store_PutUnlock(w) ==
    /\ pc[w] = "put_unlock"
    /\ storeMu' = [storeMu EXCEPT !.writer = NoThread]
    /\ Goto(w, "idle")
    /\ UNCHANGED <<now, items, metricVars, cur, lbl, ret, rbResults, deriveVars, hist,
                   subs, subsReaders, cancelled, lastResults, routeIdx, subIdx, res, inflight,
                   seen, ehist, sOut, sRem, snap, cap, schedVars>>

\* s.mu.RLock(); out := make([]Result, 0, len(s.items))
Snapshot_RLock(t) ==
    /\ pc[t] = "idle"
    /\ storeMu.writer = NoThread
    /\ storeMu' = [storeMu EXCEPT !.readers = @ \cup {t}]
    /\ sOut' = <<>>
    /\ sRem' = DOMAIN items
    /\ Goto(t, "snap_copy")
    /\ UNCHANGED <<now, items, metricVars, cur, lbl, ret, rbResults, deriveVars, hist,
                   subs, subsReaders, cancelled, lastResults, routeIdx, subIdx, res, inflight,
                   seen, ehist, snap, cap, schedVars>>

\* for _, v := range s.items { out = append(out, v) }: one iteration, in any order
Snapshot_Copy(t) ==
    /\ pc[t] = "snap_copy"
    /\ \E k \in sRem :
          /\ sOut' = IF k \in DOMAIN items THEN Append(sOut, items[k]) ELSE sOut
          /\ sRem' = sRem \ {k}
    /\ UNCHANGED <<now, items, metricVars, pc, cur, lbl, ret, rbResults, deriveVars, hist,
                   subs, subsReaders, cancelled, lastResults, routeIdx, subIdx, res, inflight,
                   seen, ehist, storeMu, snap, cap, schedVars>>

\* return out; the deferred s.mu.RUnlock()
Snapshot_Return(t) ==
    /\ pc[t] = "snap_copy"
    /\ sRem = {}
    /\ storeMu' = [storeMu EXCEPT !.readers = @ \ {t}]
    /\ snap' = [taken |-> TRUE, data |-> sOut, puts |-> ehist.lastPut]
    /\ Goto(t, "idle")
    /\ UNCHANGED <<now, items, metricVars, cur, lbl, ret, rbResults, deriveVars, hist,
                   subs, subsReaders, cancelled, lastResults, routeIdx, subIdx, res, inflight,
                   seen, ehist, sOut, sRem, cap, schedVars>>

StoreWriter(w) ==
    \/ Store_CallPut(w)
    \/ Store_PutLock(w)
    \/ Store_PutAssign(w)
    \/ Store_PutUnlock(w)

StoreReader(t) ==
    \/ Snapshot_RLock(t)
    \/ Snapshot_Copy(t)
    \/ Snapshot_Return(t)

(* ------------------------------ net/url --------------------------------- *)
\* strings.Index and strings.LastIndex as positions from 1; 0 when t is not in s
\* the places where t occurs in s
Occurs(s, t) == {i \in 1..(Len(s) - Len(t) + 1) : SubSeq(s, i, i + Len(t) - 1) = t}
Least(hits) == IF hits = {} THEN 0 ELSE CHOOSE i \in hits : \A j \in hits : i <= j
Greatest(hits) == IF hits = {} THEN 0 ELSE CHOOSE i \in hits : \A j \in hits : i >= j

\* strings.Index and strings.LastIndex, counting from 1; 0 for no occurrence
Index(s, t) == The({Least(hits) : hits \in {Occurs(s, t)}})
LastIndex(s, t) == The({Greatest(hits) : hits \in {Occurs(s, t)}})

HasPrefix(s, t) == Len(s) >= Len(t) /\ SubSeq(s, 1, Len(t)) = t

\* the bytes of a string, and whether every byte of s is one of a set
Bytes(s) == {SubSeq(s, i, i) : i \in 1..Len(s)}
AllIn(s, bytes) == \A i \in 1..Len(s) : SubSeq(s, i, i) \in bytes

AsciiLetters == Bytes("abcdefghijklmnopqrstuvwxyzABCDEFGHIJKLMNOPQRSTUVWXYZ")
AsciiDigits == Bytes("0123456789")
\* the bytes getScheme accepts in a scheme
SchemeBytes == AsciiLetters \cup AsciiDigits \cup Bytes("+-.")
\* the bytes url.Parse leaves unescaped in a host: unreserved and sub-delims
HostBytes == AsciiLetters \cup AsciiDigits \cup Bytes("-_.~!$&'()*+,;=:[]<>")
\* the token bytes of net/http validMethod
MethodBytes == AsciiLetters \cup AsciiDigits \cup Bytes("!#$%&*+-.^_|~")

\* a *url.URL, or the failure of url.Parse
NoURL == [Ok |-> FALSE, Scheme |-> "", Opaque |-> "", Host |-> "", Path |-> ""]

\* getScheme, given the place of the first colon of the raw URL: a scheme is
\* letters, digits, "+", "-" and "." after a first letter; a leading colon is
\* the error "missing protocol scheme"; anything else leaves the URL as it is
SchemeAt(raw, colon) ==
    IF colon = 1 THEN [Ok |-> FALSE, Scheme |-> "", Rest |-> ""]
    ELSE IF /\ colon > 1
            /\ AllIn(SubSeq(raw, 1, colon - 1), SchemeBytes)
            /\ AllIn(SubSeq(raw, 1, 1), AsciiLetters)
    THEN [Ok |-> TRUE, Scheme |-> ToLower(SubSeq(raw, 1, colon - 1)),
          Rest |-> SubSeq(raw, colon + 1, Len(raw))]
    ELSE [Ok |-> TRUE, Scheme |-> "", Rest |-> raw]

getScheme(raw) == The({SchemeAt(raw, colon) : colon \in {Index(raw, ":")}})

\* the first path segment of rest, slash being the place of its first "/"
FirstSegment(rest, slash) == IF slash = 0 THEN rest ELSE SubSeq(rest, 1, slash - 1)

\* the text after "//" cut at its first "/": authority and path
SplitAuthority(afterSlashes, cut) ==
    IF cut = 0 THEN [Authority |-> afterSlashes, Path |-> ""]
    ELSE [Authority |-> SubSeq(afterSlashes, 1, cut - 1),
          Path |-> SubSeq(afterSlashes, cut, Len(afterSlashes))]

\* parseHost, portAt being the place of the last colon: the port is digits
\* only and the host has no byte that would need escaping
ValidHost(authority, portAt) ==
    /\ portAt # 0 => AllIn(SubSeq(authority, portAt + 1, Len(authority)), AsciiDigits)
    /\ AllIn(authority, HostBytes)

parseHost(authority) == The({ValidHost(authority, portAt) : portAt \in {LastIndex(authority, ":")}})

\* parse, given authority and path
ParseHier(scheme, ap) ==
    IF ~parseHost(ap.Authority) THEN NoURL           \* invalid port, invalid host character
    ELSE [Ok |-> TRUE, Scheme |-> scheme, Opaque |-> "", Host |-> ap.Authority,
          Path |-> ap.Path]

\* parse, after "scheme://"
ParseAuthority(scheme, afterSlashes) ==
    The({ParseHier(scheme, SplitAuthority(afterSlashes, cut)) :
            cut \in {Index(afterSlashes, "/")}})

\* parse, after getScheme
ParseRest(scheme, rest) ==
    IF ~HasPrefix(rest, "/") /\ scheme # ""
    THEN [Ok |-> TRUE, Scheme |-> scheme, Opaque |-> rest, Host |-> "", Path |-> ""]
    ELSE IF ~HasPrefix(rest, "/") /\ Index(FirstSegment(rest, Index(rest, "/")), ":") # 0
    THEN NoURL                                       \* colon in first path segment
    ELSE IF ~HasPrefix(rest, "//") \/ (scheme = "" /\ HasPrefix(rest, "///"))
    THEN [Ok |-> TRUE, Scheme |-> scheme, Opaque |-> "", Host |-> "", Path |-> rest]
    ELSE The({ParseAuthority(scheme, afterSlashes) :
                 afterSlashes \in {SubSeq(rest, 3, Len(rest))}})

ParseFrom(gs) == IF ~gs.Ok THEN NoURL ELSE ParseRest(gs.Scheme, gs.Rest)

\* url.Parse for URLs without userinfo, query, fragment or IPv6 literal:
\* getScheme, then the authority between "//" and the next "/", then the path
ParseURL(raw) == The({ParseFrom(gs) : gs \in {getScheme(raw)}})

\* (*URL).Hostname and (*URL).Port: u.Host around its first colon
Hostname(u) ==
    The({IF colon = 0 THEN u.Host ELSE SubSeq(u.Host, 1, colon - 1) :
            colon \in {Index(u.Host, ":")}})

Port(u) ==
    The({IF colon = 0 THEN "" ELSE SubSeq(u.Host, colon + 1, Len(u.Host)) :
            colon \in {Index(u.Host, ":")}})

\* (*URL).String
URLString(u) ==
    (IF u.Scheme # "" THEN u.Scheme \o ":" ELSE "")
    \o (IF u.Opaque # "" THEN u.Opaque
        ELSE (IF (u.Scheme # "" \/ u.Host # "") /\ (u.Host # "" \/ u.Path # "")
              THEN "//" \o u.Host ELSE "")
             \o (IF u.Path # "" /\ ~HasPrefix(u.Path, "/") /\ u.Host # "" THEN "/" ELSE "")
             \o u.Path)

\* net.JoinHostPort and net.SplitHostPort (no IPv6 literal)
JoinHostPort(host, port) ==
    IF Contains(host, ":") THEN "[" \o host \o "]:" \o port ELSE host \o ":" \o port

SplitAt(addr, colon) ==
    IF colon = 0 \/ Index(SubSeq(addr, 1, colon - 1), ":") # 0
    THEN [Ok |-> FALSE, Host |-> "", Port |-> ""]
    ELSE [Ok |-> TRUE, Host |-> SubSeq(addr, 1, colon - 1),
          Port |-> SubSeq(addr, colon + 1, Len(addr))]

SplitHostPort(addr) == The({SplitAt(addr, colon) : colon \in {LastIndex(addr, ":")}})

\* net/http canonicalAddr: host:port of a URL, the port from portMap when the
\* URL has none
canonicalAddr(u) ==
    The({JoinHostPort(host, IF port # "" THEN port
                            ELSE IF u.Scheme = "https" THEN "443"
                            ELSE IF u.Scheme = "http" THEN "80"
                            ELSE IF u.Scheme = "socks5" THEN "1080"
                            ELSE "") :
            host \in {Hostname(u)}, port \in {Port(u)}})

\* net/http validMethod as http.NewRequest applies it ("" stands for GET)
ValidMethod(m) == AllIn(m, MethodBytes)

(* ------------------------------ Validate -------------------------------- *)
\* What the network does to one request: a response (status code, TLS
\* connection state) or a transport error (its Go type, text, timeout flag).
IsHTTPS(url) == Len(url) >= 8 /\ SubSeq(url, 1, 8) = "https://"

NetOutcomes(ep) ==
    {[Kind |-> "response", StatusCode |-> 200, Elapsed |-> 1,
      Header |-> EmptyMap, Body |-> [Data |-> "", FailAt |-> 0, ErrKind |-> "none"],
      CS |-> IF IsHTTPS(EndpointCfg(ep).URL)
             THEN [HasTLS |-> TRUE, VerifiedChains |-> <<<<LeafA, CaR12>>>>,
                   PeerCertificates |-> <<LeafA>>]
             ELSE NoConnState],
     [Kind |-> "error", Type |-> "net.OpError", URLError |-> TRUE, Timeout |-> FALSE,
      Elapsed |-> 1, Text |-> "dial tcp: connection refused"]}

\* settings.default-response-body-limit
DefaultResponseBodyLimit == 1024

\* endpoint.Validation of both endpoints: status code only
ValidationRule == [StatusCode |-> 200, Headers |-> EmptyMap, BodyRegex |-> ""]

\* textproto.CanonicalMIMEHeaderKey for keys of letters, digits and '-': the
\* first letter and every letter after a '-' in upper case, the others in lower
RECURSIVE CanonicalFrom(_, _)
CanonicalFrom(k, upper) ==
    IF k = "" THEN ""
    ELSE LET c == SubSeq(k, 1, 1)
         IN (IF upper THEN UpperChar(c) ELSE LowerChar(c))
            \o CanonicalFrom(SubSeq(k, 2, Len(k)), c = "-")

CanonicalMIMEHeaderKey(k) == CanonicalFrom(k, TRUE)

\* http.Header.Get: the first value stored under the canonical form of the
\* key, "" when there is none
HeaderGet(h, k) ==
    LET ck == CanonicalMIMEHeaderKey(k)
    IN IF ck \in DOMAIN h /\ Len(h[ck]) > 0 THEN h[ck][1] ELSE ""

\* io.ReadAll(io.LimitReader(resp.Body, limit)): at most limit bytes are asked
\* of the body; a body that fails after FailAt bytes fails the read only when
\* more than FailAt bytes are asked for.
LimitRead(body, limit) ==
    LET n == IF limit <= 0 THEN 0
             ELSE IF limit < Len(body.Data) THEN limit ELSE Len(body.Data)
    IN IF body.ErrKind # "none" /\ limit > body.FailAt
       THEN [Data |-> SubSeq(body.Data, 1, body.FailAt), Err |-> body.ErrKind]
       ELSE [Data |-> SubSeq(body.Data, 1, n), Err |-> "none"]

\* regexp.Match for the patterns in use: ".*", a literal with an optional
\* leading ^ and trailing $, and a pattern that does not compile (never matches)
RegexpMatch(p, b) ==
    IF p = ".*" THEN TRUE
    ELSE IF Contains(p, "(") THEN FALSE
    ELSE LET atStart == Len(p) >= 1 /\ SubSeq(p, 1, 1) = "^"
             p1 == IF atStart THEN SubSeq(p, 2, Len(p)) ELSE p
             atEnd == Len(p1) >= 1 /\ SubSeq(p1, Len(p1), Len(p1)) = "$"
             lit == IF atEnd THEN SubSeq(p1, 1, Len(p1) - 1) ELSE p1
         IN IF Len(lit) > Len(b) THEN FALSE
            ELSE IF atStart /\ atEnd THEN b = lit
            ELSE IF atStart THEN SubSeq(b, 1, Len(lit)) = lit
            ELSE IF atEnd THEN SubSeq(b, Len(b) - Len(lit) + 1, Len(b)) = lit
            ELSE Contains(b, lit)

\* the header loop compares the required key as written with the stored key
ValidateResponseRawKeys(resp, limit, rule) ==
    IF resp.StatusCode # rule.StatusCode
    THEN [Status |-> "unexpected-status-code", Err |-> NilErr]
    ELSE IF \E k \in DOMAIN rule.Headers :
               (IF k \in DOMAIN resp.Header /\ Len(resp.Header[k]) > 0
                THEN resp.Header[k][1] ELSE "") # rule.Headers[k]
    THEN [Status |-> "unexpected-header-value", Err |-> NilErr]
    ELSE IF rule.BodyRegex # "" /\ ~RegexpMatch(rule.BodyRegex, LimitRead(resp.Body, limit).Data)
    THEN [Status |-> "unexpected-body-regex", Err |-> NilErr]
    ELSE [Status |-> "valid", Err |-> NilErr]

\* the body check runs before the header check
ValidateResponseBodyFirst(resp, limit, rule) ==
    IF resp.StatusCode # rule.StatusCode
    THEN [Status |-> "unexpected-status-code", Err |-> NilErr]
    ELSE IF rule.BodyRegex # "" /\ ~RegexpMatch(rule.BodyRegex, LimitRead(resp.Body, limit).Data)
    THEN [Status |-> "unexpected-body-regex", Err |-> NilErr]
    ELSE IF \E k \in DOMAIN rule.Headers : HeaderGet(resp.Header, k) # rule.Headers[k]
    THEN [Status |-> "unexpected-header-value", Err |-> NilErr]
    ELSE [Status |-> "valid", Err |-> NilErr]

\* the whole body is read and matched, whatever the limit
ValidateResponseNoLimit(resp, limit, rule) ==
    IF resp.StatusCode # rule.StatusCode
    THEN [Status |-> "unexpected-status-code", Err |-> NilErr]
    ELSE IF \E k \in DOMAIN rule.Headers : HeaderGet(resp.Header, k) # rule.Headers[k]
    THEN [Status |-> "unexpected-header-value", Err |-> NilErr]
    ELSE IF rule.BodyRegex # "" /\ ~RegexpMatch(rule.BodyRegex, resp.Body.Data)
    THEN [Status |-> "unexpected-body-regex", Err |-> NilErr]
    ELSE [Status |-> "valid", Err |-> NilErr]

\* isTimeoutErr: a net.Error or *url.Error in the chain reports Timeout(), or
\* the chain holds context.DeadlineExceeded
isTimeoutErr(e) == e.Timeout \/ e.Type = "context.DeadlineExceeded"

\* the error io.ReadAll returns for a body that fails: the client's deadline
\* passing while the body is read, a context deadline wrapped by the reader, or
\* a connection closed early
BodyReadError(kind) ==
    IF kind = "timeout"
    THEN [Type |-> "http.httpError", Timeout |-> TRUE,
          Text |-> "context deadline exceeded (Client.Timeout or context cancellation while reading body)"]
    ELSE IF kind = "deadline"
    THEN [Type |-> "context.DeadlineExceeded", Timeout |-> FALSE,
          Text |-> "read body: context deadline exceeded"]
    ELSE [Type |-> "io.ErrUnexpectedEOF", Timeout |-> FALSE, Text |-> "unexpected EOF"]

\* every read failure is reported as request-execution-error
ValidateResponseNoTimeoutClass(resp, limit, rule) ==
    IF resp.StatusCode # rule.StatusCode
    THEN [Status |-> "unexpected-status-code", Err |-> NilErr]
    ELSE IF \E k \in DOMAIN rule.Headers : HeaderGet(resp.Header, k) # rule.Headers[k]
    THEN [Status |-> "unexpected-header-value", Err |-> NilErr]
    ELSE IF rule.BodyRegex = ""
    THEN [Status |-> "valid", Err |-> NilErr]
    ELSE LET rd == LimitRead(resp.Body, limit)
         IN IF rd.Err # "none"
            THEN [Status |-> "request-execution-error", Err |-> BodyReadError(rd.Err).Text]
            ELSE IF ~RegexpMatch(rule.BodyRegex, rd.Data)
            THEN [Status |-> "unexpected-body-regex", Err |-> NilErr]
            ELSE [Status |-> "valid", Err |-> NilErr]

\* DefaultHTTPResponseChecker.ValidateResponse
ValidateResponse(resp, limit, rule) ==
    IF resp.StatusCode # rule.StatusCode
    THEN [Status |-> "unexpected-status-code", Err |-> NilErr]
    ELSE IF \E k \in DOMAIN rule.Headers : HeaderGet(resp.Header, k) # rule.Headers[k]
    THEN [Status |-> "unexpected-header-value", Err |-> NilErr]
    ELSE IF rule.BodyRegex = ""
    THEN [Status |-> "valid", Err |-> NilErr]
    ELSE LET rd == LimitRead(resp.Body, limit)
         IN IF rd.Err # "none" /\ isTimeoutErr(BodyReadError(rd.Err))
            THEN [Status |-> "request-execution-timeout", Err |-> BodyReadError(rd.Err).Text]
            ELSE IF rd.Err # "none"
            THEN [Status |-> "request-execution-error", Err |-> BodyReadError(rd.Err).Text]
            ELSE IF ~RegexpMatch(rule.BodyRegex, rd.Data)
            THEN [Status |-> "unexpected-body-regex", Err |-> NilErr]
            ELSE [Status |-> "valid", Err |-> NilErr]

\* every *url.Error counts as a TLS failure
CheckHandshakeErrorAnyURLError(e) ==
    IF e.Type = "x509.CertificateInvalidError:Expired" THEN [Status |-> "expired-cert-leaf", Ok |-> TRUE]
    ELSE IF e.Type = "x509.CertificateInvalidError" THEN [Status |-> "invalid-tls-certificate", Ok |-> TRUE]
    ELSE IF e.Type = "x509.UnknownAuthorityError" THEN [Status |-> "invalid-tls-chain", Ok |-> TRUE]
    ELSE IF e.Type = "x509.HostnameError" THEN [Status |-> "invalid-tls-hostname", Ok |-> TRUE]
    ELSE IF e.URLError THEN [Status |-> "invalid-tls-chain", Ok |-> TRUE]
    ELSE [Status |-> "", Ok |-> FALSE]

\* DefaultTLSChecker.CheckHandshakeError, by the Go types in the error's chain;
\* Text is the text of the error a *url.Error wraps
CheckHandshakeError(e) ==
    IF e.Type = "x509.CertificateInvalidError:Expired" THEN [Status |-> "expired-cert-leaf", Ok |-> TRUE]
    ELSE IF e.Type = "x509.CertificateInvalidError" THEN [Status |-> "invalid-tls-certificate", Ok |-> TRUE]
    ELSE IF e.Type = "x509.UnknownAuthorityError" THEN [Status |-> "invalid-tls-chain", Ok |-> TRUE]
    ELSE IF e.Type = "x509.HostnameError" THEN [Status |-> "invalid-tls-hostname", Ok |-> TRUE]
    ELSE IF e.URLError /\ \E msg \in {ToLower(e.Text)} :
                             \/ Contains(msg, "tls")
                             \/ Contains(msg, "certificate")
                             \/ Contains(msg, "handshake")
         THEN [Status |-> "invalid-tls-chain", Ok |-> TRUE]
    ELSE [Status |-> "", Ok |-> FALSE]

\* config.Route values; config.EndpointRequest is [URL, Method, ResponseBodyLimit]
DirectRoute == [ProxyUrl |-> "", TargetIP |-> ""]

\* the request as client.Do sends it: the request line's URL, the Host header,
\* the ServerName of the TLS configuration, the proxy in use ("" for none)
\* and the address the dialer connects to
NoRequest ==
    [Sent |-> FALSE, Method |-> "", URL |-> "", Scheme |-> "", Host |-> "",
     ServerName |-> "", Proxy |-> "", Dial |-> ""]

\* the Transport's DialContext closure: the address handed to dialer.DialContext
DialContext(route, addr) ==
    The({IF ~sp.Ok THEN addr
         ELSE JoinHostPort(IF route.TargetIP # "" THEN route.TargetIP ELSE sp.Host, sp.Port) :
            sp \in {SplitHostPort(addr)}})

\* the URL with its host replaced by the override IP, the port kept or taken
\* from the scheme
OverrideHost(u, targetIP) ==
    The({[u EXCEPT !.Host = JoinHostPort(targetIP,
                                         IF port = ""
                                         THEN (IF u.Scheme = "https" THEN "443" ELSE "80")
                                         ELSE port)] :
            port \in {Port(u)}})

\* http.NewRequest and what client.Do will send: reqURL is the parsed
\* targetURL.  The Transport connects to the proxy when one is set and to the
\* request URL's address otherwise.
NewRequest(rc, route, u, proxyURL, targetURL, reqURL) ==
    IF ~ValidMethod(rc.Method) \/ ~reqURL.Ok
    THEN [Status |-> "invalid-request-definition", Err |-> "net/http: invalid request",
          Req |-> NoRequest]
    ELSE The({[Status |-> "", Err |-> NilErr,
               Req |-> [Sent |-> TRUE,
                        Method |-> IF rc.Method = "" THEN "GET" ELSE rc.Method,
                        URL |-> targetURL,
                        Scheme |-> reqURL.Scheme,
                        Host |-> originalHost,
                        ServerName |-> originalHost,
                        Proxy |-> IF route.ProxyUrl # "" THEN connectTo ELSE "",
                        Dial |-> DialContext(route, connectTo)]] :
                 originalHost \in {Hostname(u)},
                 connectTo \in {IF route.ProxyUrl # "" THEN canonicalAddr(proxyURL)
                                ELSE canonicalAddr(reqURL)}})

\* the override of the URL's host, then http.NewRequest
WithTarget(rc, route, u, proxyURL, targetURL) ==
    The({NewRequest(rc, route, u, proxyURL, targetURL, reqURL) :
            reqURL \in {ParseURL(targetURL)}})

\* the proxy URL is checked before the request URL
WithParsedURLsProxyFirst(rc, route, u, proxyURL) ==
    IF route.ProxyUrl # "" /\ ~proxyURL.Ok
    THEN [Status |-> "invalid-proxy-definition", Err |-> "parse " \o route.ProxyUrl,
          Req |-> NoRequest]
    ELSE IF ~u.Ok
    THEN [Status |-> "invalid-url", Err |-> "parse " \o rc.URL, Req |-> NoRequest]
    ELSE The({WithTarget(rc, route, u, proxyURL, targetURL) :
                 targetURL \in {IF route.TargetIP # ""
                                THEN URLString(OverrideHost(u, route.TargetIP))
                                ELSE rc.URL}})

PrepareRequestProxyFirst(rc, route) ==
    The({WithParsedURLsProxyFirst(rc, route, u, proxyURL) :
            u \in {ParseURL(rc.URL)}, proxyURL \in {ParseURL(route.ProxyUrl)}})

\* Validate after its two url.Parse calls: u is the parsed request URL and
\* proxyURL the parsed proxy URL
WithParsedURLs(rc, route, u, proxyURL) ==
    IF ~u.Ok
    THEN [Status |-> "invalid-url", Err |-> "parse " \o rc.URL, Req |-> NoRequest]
    ELSE IF route.ProxyUrl # "" /\ ~proxyURL.Ok
    THEN [Status |-> "invalid-proxy-definition", Err |-> "parse " \o route.ProxyUrl,
          Req |-> NoRequest]
    ELSE The({WithTarget(rc, route, u, proxyURL, targetURL) :
                 targetURL \in {IF route.TargetIP # ""
                                THEN URLString(OverrideHost(u, route.TargetIP))
                                ELSE rc.URL}})

\* Validate up to client.Do: the configuration error it returns, or the
\* request it sends
PrepareRequest(rc, route) ==
    The({WithParsedURLs(rc, route, u, proxyURL) :
            u \in {ParseURL(rc.URL)}, proxyURL \in {ParseURL(route.ProxyUrl)}})

\* the chain is inspected whether or not inspection was requested
ValidateInspectUnasked(rc, route, validation, checkCerts, net, t) ==
    LET p == PrepareRequest(rc, route) IN
    IF p.Status # ""
    THEN [Status |-> p.Status, Duration |-> 0, TLS |-> NilReport, Err |-> p.Err,
          Calls |-> IF p.Status = "invalid-request-definition"
                    THEN {"TLSClientConfigWithSNI"} ELSE {}]
    ELSE IF net.Kind = "error"
    THEN IF p.Req.Scheme = "https" /\ CheckHandshakeError(net).Ok
         THEN [Status |-> CheckHandshakeError(net).Status, Duration |-> net.Elapsed,
               TLS |-> NilReport, Err |-> net.Text,
               Calls |-> {"TLSClientConfigWithSNI"}
                         \cup (IF p.Req.Scheme = "https" THEN {"CheckHandshakeError"} ELSE {})]
         ELSE IF isTimeoutErr(net)
         THEN [Status |-> "request-execution-timeout", Duration |-> net.Elapsed,
               TLS |-> NilReport, Err |-> net.Text,
               Calls |-> {"TLSClientConfigWithSNI"}
                         \cup (IF p.Req.Scheme = "https" THEN {"CheckHandshakeError"} ELSE {})]
         ELSE [Status |-> "invalid-request-execution", Duration |-> net.Elapsed,
               TLS |-> NilReport, Err |-> net.Text,
               Calls |-> {"TLSClientConfigWithSNI"}
                         \cup (IF p.Req.Scheme = "https" THEN {"CheckHandshakeError"} ELSE {})]
    ELSE LET vr == IF Len(validation) > 0
                   THEN ValidateResponse(net, rc.ResponseBodyLimit, validation[1])
                   ELSE [Status |-> "valid", Err |-> NilErr]
         IN [Status |-> vr.Status, Duration |-> net.Elapsed,
             TLS |-> IF p.Req.Scheme = "https" /\ net.CS.HasTLS
                     THEN Inspect(net.CS, t) ELSE NilReport,
             Err |-> vr.Err,
             Calls |-> {"TLSClientConfigWithSNI"}
                       \cup (IF checkCerts /\ p.Req.Scheme = "https" /\ net.CS.HasTLS
                             THEN {"Inspect"} ELSE {})
                       \cup (IF Len(validation) > 0 THEN {"ValidateResponse"} ELSE {})]

\* a nil rule is replaced by the status-code rule
ValidateNilRuleAsDefault(rc, route, validation, checkCerts, net, t) ==
    LET p == PrepareRequest(rc, route) IN
    IF p.Status # ""
    THEN [Status |-> p.Status, Duration |-> 0, TLS |-> NilReport, Err |-> p.Err,
          Calls |-> IF p.Status = "invalid-request-definition"
                    THEN {"TLSClientConfigWithSNI"} ELSE {}]
    ELSE IF net.Kind = "error"
    THEN IF p.Req.Scheme = "https" /\ CheckHandshakeError(net).Ok
         THEN [Status |-> CheckHandshakeError(net).Status, Duration |-> net.Elapsed,
               TLS |-> NilReport, Err |-> net.Text,
               Calls |-> {"TLSClientConfigWithSNI"}
                         \cup (IF p.Req.Scheme = "https" THEN {"CheckHandshakeError"} ELSE {})]
         ELSE IF isTimeoutErr(net)
         THEN [Status |-> "request-execution-timeout", Duration |-> net.Elapsed,
               TLS |-> NilReport, Err |-> net.Text,
               Calls |-> {"TLSClientConfigWithSNI"}
                         \cup (IF p.Req.Scheme = "https" THEN {"CheckHandshakeError"} ELSE {})]
         ELSE [Status |-> "invalid-request-execution", Duration |-> net.Elapsed,
               TLS |-> NilReport, Err |-> net.Text,
               Calls |-> {"TLSClientConfigWithSNI"}
                         \cup (IF p.Req.Scheme = "https" THEN {"CheckHandshakeError"} ELSE {})]
    ELSE LET vr == IF Len(validation) > 0
                   THEN ValidateResponse(net, rc.ResponseBodyLimit, validation[1])
                   ELSE ValidateResponse(net, rc.ResponseBodyLimit, ValidationRule)
         IN [Status |-> vr.Status, Duration |-> net.Elapsed,
             TLS |-> IF checkCerts /\ p.Req.Scheme = "https" /\ net.CS.HasTLS
                     THEN Inspect(net.CS, t) ELSE NilReport,
             Err |-> vr.Err,
             Calls |-> {"TLSClientConfigWithSNI"}
                       \cup (IF checkCerts /\ p.Req.Scheme = "https" /\ net.CS.HasTLS
                             THEN {"Inspect"} ELSE {})
                       \cup (IF Len(validation) > 0 THEN {"ValidateResponse"} ELSE {})]

\* the timeout test comes before the handshake classification
ValidateTimeoutFirst(rc, route, validation, checkCerts, net, t) ==
    LET p == PrepareRequest(rc, route) IN
    IF p.Status # ""
    THEN [Status |-> p.Status, Duration |-> 0, TLS |-> NilReport, Err |-> p.Err,
          Calls |-> IF p.Status = "invalid-request-definition"
                    THEN {"TLSClientConfigWithSNI"} ELSE {}]
    ELSE IF net.Kind = "error"
    THEN [Status |-> IF isTimeoutErr(net) THEN "request-execution-timeout"
                     ELSE IF p.Req.Scheme = "https" /\ CheckHandshakeError(net).Ok
                     THEN CheckHandshakeError(net).Status
                     ELSE "invalid-request-execution",
          Duration |-> net.Elapsed, TLS |-> NilReport, Err |-> net.Text,
               Calls |-> {"TLSClientConfigWithSNI"}
                         \cup (IF p.Req.Scheme = "https" THEN {"CheckHandshakeError"} ELSE {})]
    ELSE LET vr == IF Len(validation) > 0
                   THEN ValidateResponse(net, rc.ResponseBodyLimit, validation[1])
                   ELSE [Status |-> "valid", Err |-> NilErr]
         IN [Status |-> vr.Status, Duration |-> net.Elapsed,
             TLS |-> IF checkCerts /\ p.Req.Scheme = "https" /\ net.CS.HasTLS
                     THEN Inspect(net.CS, t) ELSE NilReport,
             Err |-> vr.Err,
             Calls |-> {"TLSClientConfigWithSNI"}
                       \cup (IF checkCerts /\ p.Req.Scheme = "https" /\ net.CS.HasTLS
                             THEN {"Inspect"} ELSE {})
                       \cup (IF Len(validation) > 0 THEN {"ValidateResponse"} ELSE {})]

\* Inspect called on every https response, with or without TLS state
DoRequestInspectsAnyResponse(p, rc, validation, checkCerts, net, t) ==
    IF p.Status # ""
    THEN [Status |-> p.Status, Duration |-> 0, TLS |-> NilReport, Err |-> p.Err,
          Calls |-> IF p.Status = "invalid-request-definition"
                    THEN {"TLSClientConfigWithSNI"} ELSE {}]
    ELSE IF net.Kind = "error"
    THEN IF p.Req.Scheme = "https" /\ CheckHandshakeError(net).Ok
         THEN [Status |-> CheckHandshakeError(net).Status, Duration |-> net.Elapsed,
               TLS |-> NilReport, Err |-> net.Text,
               Calls |-> {"TLSClientConfigWithSNI"}
                         \cup (IF p.Req.Scheme = "https" THEN {"CheckHandshakeError"} ELSE {})]
         ELSE IF isTimeoutErr(net)
         THEN [Status |-> "request-execution-timeout", Duration |-> net.Elapsed,
               TLS |-> NilReport, Err |-> net.Text,
               Calls |-> {"TLSClientConfigWithSNI"}
                         \cup (IF p.Req.Scheme = "https" THEN {"CheckHandshakeError"} ELSE {})]
         ELSE [Status |-> "invalid-request-execution", Duration |-> net.Elapsed,
               TLS |-> NilReport, Err |-> net.Text,
               Calls |-> {"TLSClientConfigWithSNI"}
                         \cup (IF p.Req.Scheme = "https" THEN {"CheckHandshakeError"} ELSE {})]
    ELSE LET vr == IF Len(validation) > 0
                   THEN ValidateResponse(net, rc.ResponseBodyLimit, validation[1])
                   ELSE [Status |-> "valid", Err |-> NilErr]
         IN [Status |-> vr.Status, Duration |-> net.Elapsed,
             TLS |-> IF checkCerts /\ p.Req.Scheme = "https"
                     THEN Inspect(net.CS, t) ELSE NilReport,
             Err |-> vr.Err,
             Calls |-> {"TLSClientConfigWithSNI"}
                       \cup (IF checkCerts /\ p.Req.Scheme = "https"
                             THEN {"Inspect"} ELSE {})
                       \cup (IF Len(validation) > 0 THEN {"ValidateResponse"} ELSE {})]

\* Validate from client.Do on: p is what PrepareRequest returned
DoRequest(p, rc, validation, checkCerts, net, t) ==
    IF p.Status # ""
    THEN [Status |-> p.Status, Duration |-> 0, TLS |-> NilReport, Err |-> p.Err,
          Calls |-> IF p.Status = "invalid-request-definition"
                    THEN {"TLSClientConfigWithSNI"} ELSE {}]
    ELSE IF net.Kind = "error"
    THEN IF p.Req.Scheme = "https" /\ CheckHandshakeError(net).Ok
         THEN [Status |-> CheckHandshakeError(net).Status, Duration |-> net.Elapsed,
               TLS |-> NilReport, Err |-> net.Text,
               Calls |-> {"TLSClientConfigWithSNI"}
                         \cup (IF p.Req.Scheme = "https" THEN {"CheckHandshakeError"} ELSE {})]
         ELSE IF isTimeoutErr(net)
         THEN [Status |-> "request-execution-timeout", Duration |-> net.Elapsed,
               TLS |-> NilReport, Err |-> net.Text,
               Calls |-> {"TLSClientConfigWithSNI"}
                         \cup (IF p.Req.Scheme = "https" THEN {"CheckHandshakeError"} ELSE {})]
         ELSE [Status |-> "invalid-request-execution", Duration |-> net.Elapsed,
               TLS |-> NilReport, Err |-> net.Text,
               Calls |-> {"TLSClientConfigWithSNI"}
                         \cup (IF p.Req.Scheme = "https" THEN {"CheckHandshakeError"} ELSE {})]
    ELSE LET vr == IF Len(validation) > 0
                   THEN ValidateResponse(net, rc.ResponseBodyLimit, validation[1])
                   ELSE [Status |-> "valid", Err |-> NilErr]
         IN [Status |-> vr.Status, Duration |-> net.Elapsed,
             TLS |-> IF checkCerts /\ p.Req.Scheme = "https" /\ net.CS.HasTLS
                     THEN Inspect(net.CS, t) ELSE NilReport,
             Err |-> vr.Err,
             Calls |-> {"TLSClientConfigWithSNI"}
                       \cup (IF checkCerts /\ p.Req.Scheme = "https" /\ net.CS.HasTLS
                             THEN {"Inspect"} ELSE {})
                       \cup (IF Len(validation) > 0 THEN {"ValidateResponse"} ELSE {})]

\* WatchDogValidator.Validate: (status, duration, certsRep, err), and Calls, the
\* methods of m.tlsChecker and m.responseChecker it invoked.  validation is the
\* *config.EndpointValidation, <<>> for nil; net is what client.Do yields for
\* the request: a response or a transport error.
Validate(rc, route, validation, checkCerts, net, t) ==
    The({DoRequest(p, rc, validation, checkCerts, net, t) : p \in {PrepareRequest(rc, route)}})

\* cfg.Routes and endpoint.Request as probeOnce reads them: env.badProxy names
\* the routes configured with a proxy-url that url.Parse rejects
RouteCfg(routeKey) ==
    IF routeKey \in env.badProxy THEN [ProxyUrl |-> "://proxy.local", TargetIP |-> ""]
    ELSE DirectRoute

RequestOf(ep) ==
    [URL |-> RequestURL(ep),
     Method |-> "GET", ResponseBodyLimit |-> DefaultResponseBodyLimit]

\* the call of probeOnce: e.validator.Validate(endpointName, endpoint.Request,
\* routeKey, route, endpoint.Validation, endpoint.InspectTLSCerts)
CallValidate(ep, routeKey, net, t) ==
    Validate(RequestOf(ep), RouteCfg(routeKey), <<ValidationRule>>,
             EndpointCfg(ep).InspectTLSCerts, net, t)

\* whether that call gets as far as client.Do
Dispatches(ep, routeKey) == PrepareRequest(RequestOf(ep), RouteCfg(routeKey)).Req.Sent

(* ------------------- ValidateResponse applied on its own ---------------- *)
\* responses a server may send: status, headers as net/http stores them (keys
\* in canonical form, values in arrival order), a body that may fail to read
ResponseHeaders ==
    {EmptyMap,
     [k \in {"X-Test"} |-> <<"value">>],
     [k \in {"X-Test"} |-> <<"bad", "value">>],
     [k \in {"X-Test"} |-> <<"value", "bad">>]}

ResponseBodies ==
    {[Data |-> "abcdef", FailAt |-> 0, ErrKind |-> "none"],
     [Data |-> "abcdef", FailAt |-> 4, ErrKind |-> "timeout"],
     [Data |-> "abc", FailAt |-> 0, ErrKind |-> "other"]}

Responses ==
    {[StatusCode |-> sc, Header |-> h, Body |-> b] :
        sc \in {200, 500}, h \in ResponseHeaders, b \in ResponseBodies}

\* config.EndpointValidation values
RuleHeaders ==
    {EmptyMap,
     [k \in {"X-Test"} |-> "value"],
     [k \in {"x-test"} |-> "value"],
     [k \in {"X-Test"} |-> "bad"],
     [k \in {"X-Missing"} |-> ""]}

RuleRegexes == {"", "abc", "abcd", "^abc$", "def", ".*", "("}

Rules ==
    {[StatusCode |-> 200, Headers |-> h, BodyRegex |-> re] :
        h \in RuleHeaders, re \in RuleRegexes}

\* rc.ResponseBodyLimit
BodyLimits == {-1, 0, 3, 4, 6, DefaultResponseBodyLimit}

ResponseInputs == {[Resp |-> r, Limit |-> l, Rule |-> v] : r \in Responses, l \in BodyLimits, v \in Rules}

NoResponseInput ==
    [Resp |-> [StatusCode |-> 0, Header |-> EmptyMap,
               Body |-> [Data |-> "", FailAt |-> 0, ErrKind |-> "none"]],
     Limit |-> 0, Rule |-> ValidationRule]

NotValidated == [Status |-> "<none>", Err |-> NilErr]

ApplyValidateResponse ==
    /\ vrOut = NotValidated
    /\ vrIn # NoResponseInput
    /\ vrOut' = ValidateResponse(vrIn.Resp, vrIn.Limit, vrIn.Rule)
    /\ UNCHANGED <<now, items, metricVars, pc, cur, lbl, ret, rbResults, dsIn, dsOut, vrIn,
                   callVars, hist, engineVars>>

(* ----------------------- Validate applied on its own -------------------- *)
\* transport errors client.Do may return: Type is the x509 type errors.As
\* finds in the chain, else the type of the innermost error; Text the text of
\* what the *url.Error wraps (the prefix naming the method and the URL is left
\* out: no URL in use holds a word the status derivation looks for).  An
\* unknown authority reads with or without the "tls: failed to verify
\* certificate" prefix, by the Go release.
TransportErrors ==
    {[Kind |-> "error", Type |-> "net.OpError", URLError |-> TRUE, Timeout |-> FALSE,
      Elapsed |-> 1, Text |-> "dial tcp: connection refused"],
     [Kind |-> "error", Type |-> "http.httpError", URLError |-> TRUE, Timeout |-> TRUE,
      Elapsed |-> 2, Text |-> "context deadline exceeded (Client.Timeout exceeded while awaiting headers)"],
     [Kind |-> "error", Type |-> "context.DeadlineExceeded", URLError |-> TRUE, Timeout |-> FALSE,
      Elapsed |-> 2, Text |-> "round trip: context deadline exceeded"],
     [Kind |-> "error", Type |-> "http.tlsHandshakeTimeoutError", URLError |-> TRUE, Timeout |-> TRUE,
      Elapsed |-> 2, Text |-> "net/http: TLS handshake timeout"],
     [Kind |-> "error", Type |-> "tls.alert", URLError |-> TRUE, Timeout |-> FALSE,
      Elapsed |-> 1, Text |-> "remote error: tls: handshake failure"],
     [Kind |-> "error", Type |-> "x509.UnknownAuthorityError", URLError |-> TRUE, Timeout |-> FALSE,
      Elapsed |-> 1, Text |-> "x509: certificate signed by unknown authority"],
     [Kind |-> "error", Type |-> "x509.UnknownAuthorityError", URLError |-> TRUE, Timeout |-> FALSE,
      Elapsed |-> 1,
      Text |-> "tls: failed to verify certificate: x509: certificate signed by unknown authority"],
     [Kind |-> "error", Type |-> "x509.HostnameError", URLError |-> TRUE, Timeout |-> FALSE,
      Elapsed |-> 1,
      Text |-> "tls: failed to verify certificate: x509: certificate is valid for a.local, not example.org"],
     [Kind |-> "error", Type |-> "x509.CertificateInvalidError:Expired", URLError |-> TRUE,
      Timeout |-> FALSE, Elapsed |-> 1,
      Text |-> "tls: failed to verify certificate: x509: certificate has expired or is not yet valid"],
     [Kind |-> "error", Type |-> "x509.CertificateInvalidError", URLError |-> TRUE,
      Timeout |-> FALSE, Elapsed |-> 1,
      Text |-> "tls: failed to verify certificate: x509: certificate is not authorized to sign other certificates"]}

\* responses client.Do may return; a response to a plain http request has no
\* TLS state
ValidateBodies ==
    {[Data |-> "abcdef", FailAt |-> 0, ErrKind |-> "none"],
     [Data |-> "abcdef", FailAt |-> 4, ErrKind |-> "timeout"],
     [Data |-> "abc", FailAt |-> 0, ErrKind |-> "deadline"],
     [Data |-> "abc", FailAt |-> 0, ErrKind |-> "other"]}

TransportResponses(scheme) ==
    {[Kind |-> "response", StatusCode |-> sc, Elapsed |-> 1, Header |-> EmptyMap,
      Body |-> b, CS |-> cs] :
        sc \in {200, 500}, b \in ValidateBodies,
        cs \in IF scheme = "https"
               THEN {NoConnState,
                     [HasTLS |-> TRUE, VerifiedChains |-> <<<<LeafA, CaR12>>>>,
                      PeerCertificates |-> <<LeafA>>],
                     [HasTLS |-> TRUE, VerifiedChains |-> <<>>, PeerCertificates |-> <<LeafA>>]}
               ELSE {NoConnState}}

\* config.EndpointRequest values: URLs with and without a port, two that
\* url.Parse rejects, a method http.NewRequest rejects
RequestURLs ==
    {"https://example.org", "HTTPS://example.org:8443/health", "http://example.org",
     "http://example.org:8080/health", "://example.org", "http://exam ple.org"}

Requests ==
    {[URL |-> u, Method |-> "GET", ResponseBodyLimit |-> l] :
        u \in RequestURLs, l \in {3, DefaultResponseBodyLimit}}
    \cup {[URL |-> "https://example.org", Method |-> "GE T",
           ResponseBodyLimit |-> DefaultResponseBodyLimit]}

\* config.Route values: direct, target-ip, proxy-url, both, and a proxy-url
\* that url.Parse rejects
RouteValues ==
    {[ProxyUrl |-> p, TargetIP |-> ip] :
        p \in {"", "http://proxy.local:3128", "http://proxy.local", "http://proxy.local:port"},
        ip \in {"", "127.0.0.1"}}

\* endpoint.Validation: nil, or a rule
Validations ==
    {<<>>,
     <<[StatusCode |-> 200, Headers |-> EmptyMap, BodyRegex |-> ""]>>,
     <<[StatusCode |-> 200, Headers |-> EmptyMap, BodyRegex |-> "abc"]>>}

\* no method applied on its own
NoValidateInput == [RC |-> [URL |-> "", Method |-> "", ResponseBodyLimit |-> 0]]
NoValidateOutput == [Req |-> NoRequest]
NoCheckerInput == [Method |-> "none"]
NoCheckerOutput == [Method |-> "none"]
NoLog == [Entry |-> "", R |-> NoResult, Prev |-> NoResult]

\* the scheme of rc.URL as url.Parse returns it
SchemeOf(rc) == ParseURL(rc.URL).Scheme

ApplyValidate ==
    /\ vaOut = NoValidateOutput
    /\ vaIn # NoValidateInput
    /\ vaOut' = [Req |-> PrepareRequest(vaIn.RC, vaIn.Route).Req,
                 Ret |-> Validate(vaIn.RC, vaIn.Route, vaIn.Validation, vaIn.CheckCerts,
                                  vaIn.Net, now)]
    /\ UNCHANGED <<now, items, metricVars, pc, cur, lbl, ret, rbResults, dsIn, dsOut, vrIn,
                   vrOut, vaIn, tcIn, tcOut, lgOut, hist, engineVars>>

(* ------------------ TLSChecker methods applied on their own ------------- *)
\* errors handed to CheckHandshakeError: the transport errors, two more that
\* are no TLS failures, each inside a *url.Error (as client.Do returns them)
\* or bare
CheckerErrors ==
    {[e EXCEPT !.URLError = w] :
        e \in TransportErrors \cup
              {[Kind |-> "error", Type |-> "net.DNSError", URLError |-> TRUE, Timeout |-> FALSE,
                Elapsed |-> 1, Text |-> "dial tcp: lookup example.org: no such host"],
               [Kind |-> "error", Type |-> "io.EOF", URLError |-> TRUE, Timeout |-> FALSE,
                Elapsed |-> 1, Text |-> "EOF"]},
        w \in BOOLEAN}

\* resp.TLS values handed to Inspect: nil, or a connection state with zero,
\* one or two verified chains (the first possibly empty) and a peer list
CheckerConnStates ==
    {NoConnState} \cup
    {[HasTLS |-> TRUE, VerifiedChains |-> vc, PeerCertificates |-> peer] :
        vc \in {<<>>, << <<>> >>, << <<LeafA>> >>, << <<LeafA, CaR12>> >>,
                << <<LeafB, CaR12>> >>, << <<LeafA, CaR12>>, <<LeafB, CaR12>> >>},
        peer \in {<<>>, <<LeafA>>, <<LeafB>>, <<LeafA, CaR12>>, <<LeafB, CaR12>>}}

CheckerInputs ==
    {[Method |-> "CheckHandshakeError", Err |-> e] : e \in CheckerErrors}
    \cup {[Method |-> "Inspect", CS |-> cs] : cs \in CheckerConnStates}

ApplyCheckHandshakeError ==
    /\ tcOut = NoCheckerOutput
    /\ tcIn.Method = "CheckHandshakeError"
    /\ tcOut' = [Method |-> "CheckHandshakeError",
                 Status |-> CheckHandshakeError(tcIn.Err).Status,
                 Ok |-> CheckHandshakeError(tcIn.Err).Ok]
    /\ UNCHANGED <<now, items, metricVars, pc, cur, lbl, ret, rbResults, dsIn, dsOut, vrIn,
                   vrOut, vaIn, vaOut, tcIn, lgOut, hist, engineVars>>

ApplyInspect ==
    /\ tcOut = NoCheckerOutput
    /\ tcIn.Method = "Inspect"
    /\ tcOut' = [Method |-> "Inspect", Report |-> Inspect(tcIn.CS, now)]
    /\ UNCHANGED <<now, items, metricVars, pc, cur, lbl, ret, rbResults, dsIn, dsOut, vrIn,
                   vrOut, vaIn, vaOut, tcIn, lgOut, hist, engineVars>>

(* ------------------------------- Engine --------------------------------- *)
Subscribers == {"s1", "s2"}
RoutesOf(ep) == EndpointCfg(ep).Routes

\* Engine.Subscribe: muSubs.Lock, append, Unlock
Subscribe(s) ==
    /\ subsReaders = {}
    /\ s \notin Range(subs)
    /\ subs' = Append(subs, s)
    /\ UNCHANGED <<now, items, metricVars, pc, cur, lbl, ret, rbResults, deriveVars, hist,
                   subsReaders, cancelled, lastResults, routeIdx, subIdx, res, inflight,
                   seen, ehist, storeVars, schedVars>>

\* the caller cancels the context
Cancel ==
    /\ ~cancelled
    /\ cancelled' = TRUE
    /\ UNCHANGED <<now, items, metricVars, pc, cur, lbl, ret, rbResults, deriveVars, hist,
                   subs, subsReaders, lastResults, routeIdx, subIdx, res, inflight,
                   seen, ehist, storeVars, schedVars>>

\* runEndpointLoop: a non-positive interval is replaced by 30 (seconds, the
\* unit of the clock where deadlines are tracked)
DefaultInterval == 30
EffectiveInterval(i) == IF i <= 0 THEN DefaultInterval ELSE i

\* rand.Int63n(int64(interval / 10)): some duration in [0, interval/10), in
\* whole units of the clock
Jitters(i) == 0..(((i + 9) \div 10) - 1)

NoTimer == [st |-> "none", at |-> 0]
NoTicks == [ep \in Endpoints |-> [n |-> 0, at |-> 0, prev |-> 0]]
NoLoop == [interval |-> 0, jit |-> 0, since |-> 0]

\* the surroundings of a run: whether timer deadlines are tracked against the
\* clock, the interval intervalFor returns, the subscribers whose OnResult
\* panics, the endpoints of cfg.Endpoints, the ticks a loop may begin, the
\* endpoint whose server may never answer, the endpoints whose URL and the
\* routes whose proxy URL do not parse
DefaultEnv ==
    [timed |-> FALSE, interval |-> 0, panicky |-> {}, configured |-> Endpoints, maxTicks |-> 0,
     slow |-> "none", badURL |-> {}, badProxy |-> {}]

\* the deadline of a timer set to d from now
Deadline(d) == IF env.timed THEN now + d ELSE 0

\* runEndpointLoop up to the for loop: interval, jitter, time.NewTimer(jit)
Loop_Init(ep) ==
    /\ pc[ep] = "init"
    /\ \E j \in Jitters(EffectiveInterval(env.interval)) :
          /\ loop' = [loop EXCEPT ![ep] = [interval |-> EffectiveInterval(env.interval),
                                           jit |-> j, since |-> Deadline(0)]]
          /\ timer' = [timer EXCEPT ![ep] = [st |-> "armed", at |-> Deadline(j)]]
          /\ Goto(ep, "wait")
    /\ UNCHANGED <<now, items, metricVars, cur, lbl, ret, rbResults, deriveVars, hist,
                   subs, subsReaders, cancelled, lastResults, routeIdx, subIdx, res, inflight,
                   seen, ehist, storeVars, env, ticks>>

\* the runtime sends on timer.C, at or after the deadline
Timer_Fire(ep) ==
    /\ timer[ep].st = "armed"
    /\ now >= timer[ep].at
    /\ now < cap
    /\ ticks[ep].n < env.maxTicks
    /\ timer' = [timer EXCEPT ![ep].st = "fired"]
    /\ UNCHANGED <<now, items, metricVars, pc, cur, lbl, ret, rbResults, deriveVars, hist,
                   subs, subsReaders, cancelled, lastResults, routeIdx, subIdx, res, inflight,
                   seen, ehist, storeVars, env, ticks, loop>>

\* runEndpointLoop: select, case <-ctx.Done(): return (and the deferred timer.Stop)
Loop_Stop(ep) ==
    /\ pc[ep] = "wait"
    /\ cancelled
    /\ Goto(ep, "stopped")
    /\ timer' = [timer EXCEPT ![ep].st = "stopped"]
    /\ UNCHANGED <<now, items, metricVars, cur, lbl, ret, rbResults, deriveVars, hist,
                   subs, subsReaders, cancelled, lastResults, routeIdx, subIdx, res, inflight,
                   seen, ehist, storeVars, env, ticks, loop>>

\* runEndpointLoop: select, case <-timer.C: probeOnce begins with the first
\* route.  When ctx.Done() is ready as well, select takes either case.
Loop_Tick(ep) ==
    /\ pc[ep] = "wait"
    /\ timer[ep].st = "fired"
    /\ timer' = [timer EXCEPT ![ep].st = "idle"]
    /\ ticks' = [ticks EXCEPT ![ep] = [n |-> @.n + 1, at |-> Deadline(0), prev |-> @.at]]
    /\ routeIdx' = [routeIdx EXCEPT ![ep] = 1]
    /\ ehist' = [ehist EXCEPT !.made[ep] = <<>>, !.started[ep] = <<>>]
    /\ Goto(ep, "probe")
    /\ UNCHANGED <<now, items, metricVars, cur, lbl, ret, rbResults, deriveVars, hist,
                   subs, subsReaders, cancelled, lastResults, subIdx, res, inflight, seen,
                   storeVars, env, loop>>

\* the steps of one iteration of probeOnce's loop, in order
ProbeOnceFlowNotifyFirst == <<"validating", "log", "notify", "put", "next">>

ProbeOnceFlowNoNotify == <<"validating", "log", "put", "next">>

ProbeOnceFlow == <<"validating", "log", "put", "notify", "next">>

After(stage) ==
    LET i == CHOOSE j \in 1..Len(ProbeOnceFlow) : ProbeOnceFlow[j] = stage
    IN ProbeOnceFlow[i + 1]

\* the request of the next route is dispatched without waiting for it
Probe_StartDetached(ep) ==
    /\ pc[ep] = "probe"
    /\ inflight' = inflight \cup {<<ep, RoutesOf(ep)[routeIdx[ep]]>>}
    /\ ehist' = [ehist EXCEPT !.started[ep] = Append(@, RoutesOf(ep)[routeIdx[ep]])]
    /\ IF routeIdx[ep] < Len(RoutesOf(ep))
       THEN /\ routeIdx' = [routeIdx EXCEPT ![ep] = @ + 1]
            /\ UNCHANGED pc
       ELSE /\ Goto(ep, "validating")
            /\ UNCHANGED routeIdx
    /\ UNCHANGED <<now, items, metricVars, cur, lbl, ret, rbResults, deriveVars, hist,
                   subs, subsReaders, cancelled, lastResults, subIdx, res, seen, storeVars, schedVars>>

\* the loops sharing one worker: a request is dispatched only when no other
\* request is in flight
Probe_StartOneWorker(ep) ==
    /\ pc[ep] = "probe"
    /\ inflight = {}
    /\ inflight' = inflight \cup {<<ep, RoutesOf(ep)[routeIdx[ep]]>>}
    /\ ehist' = [ehist EXCEPT !.started[ep] = Append(@, RoutesOf(ep)[routeIdx[ep]])]
    /\ Goto(ep, "validating")
    /\ UNCHANGED <<now, items, metricVars, cur, lbl, ret, rbResults, deriveVars, hist,
                   subs, subsReaders, cancelled, lastResults, routeIdx, subIdx, res, seen, storeVars, schedVars>>

\* probeOnce: Validate is called for the route, the request is dispatched
\* unless the URL or the proxy URL does not parse
Probe_Start(ep) ==
    /\ pc[ep] = "probe"
    /\ inflight' = IF Dispatches(ep, RoutesOf(ep)[routeIdx[ep]])
                   THEN inflight \cup {<<ep, RoutesOf(ep)[routeIdx[ep]]>>}
                   ELSE inflight
    /\ ehist' = [ehist EXCEPT !.started[ep] = Append(@, RoutesOf(ep)[routeIdx[ep]])]
    /\ Goto(ep, "validating")
    /\ UNCHANGED <<now, items, metricVars, cur, lbl, ret, rbResults, deriveVars, hist,
                   subs, subsReaders, cancelled, lastResults, routeIdx, subIdx, res, seen, storeVars, schedVars>>

\* probeOnce: Validate returns and the Result is built, At: time.Now()
Probe_Complete(ep) ==
    /\ pc[ep] = "validating"
    /\ Dispatches(ep, RoutesOf(ep)[routeIdx[ep]]) => <<ep, RoutesOf(ep)[routeIdx[ep]]>> \in inflight
    /\ \E net \in NetOutcomes(ep) : \E v \in {CallValidate(ep, RoutesOf(ep)[routeIdx[ep]], net, now)} :
          \E r \in {MkResult(ep, RoutesOf(ep)[routeIdx[ep]], v.Status, v.Duration, v.Err,
                             v.TLS, now + 1)} :
             /\ res' = [res EXCEPT ![ep] = r]
             /\ ehist' = [ehist EXCEPT !.made[ep] = Append(@, r)]
    /\ now' = now + 1
    /\ inflight' = inflight \ {<<ep, RoutesOf(ep)[routeIdx[ep]]>>}
    /\ Goto(ep, After("validating"))
    /\ UNCHANGED <<items, metricVars, cur, lbl, ret, rbResults, deriveVars, hist,
                   subs, subsReaders, cancelled, lastResults, routeIdx, subIdx, seen, storeVars, schedVars>>

\* cur of logOnTransition: r.Err.Error(), "" for a nil error
CurOf(r) == IF r.Err # NilErr THEN r.Err ELSE ""

\* an entry for every Result with an error, changed or not
logOnTransitionEveryError(last, r) ==
    [Entry |-> IF keyOf(r) \notin DOMAIN last THEN "probe STARTED"
               ELSE IF CurOf(r) # "" THEN "probe ERROR"
               ELSE IF last[keyOf(r)] # "" THEN "probe RECOVERED"
               ELSE "none",
     Last |-> MapSet(last, keyOf(r), CurOf(r))]

\* Engine.logOnTransition(r) with e.lastResults = last: the entry log.Printf
\* writes ("none" when no case of the switch applies) and e.lastResults after
logOnTransition(last, r) ==
    [Entry |-> IF keyOf(r) \notin DOMAIN last THEN "probe STARTED"
               ELSE IF last[keyOf(r)] = "" /\ CurOf(r) # "" THEN "probe ERROR"
               ELSE IF last[keyOf(r)] # "" /\ CurOf(r) = "" THEN "probe RECOVERED"
               ELSE IF last[keyOf(r)] # "" /\ last[keyOf(r)] # CurOf(r)
               THEN "probe ERROR UPDATED"
               ELSE "none",
     Last |-> MapSet(last, keyOf(r), CurOf(r))]

\* Engine.logOnTransition: the entry goes to the log, lastResults[key] = cur
Probe_LogOnTransition(ep) ==
    /\ pc[ep] = "log"
    /\ lastResults' = logOnTransition(lastResults, res[ep]).Last
    /\ Goto(ep, After("log"))
    /\ UNCHANGED <<now, items, metricVars, cur, lbl, ret, rbResults, deriveVars, hist,
                   subs, subsReaders, cancelled, routeIdx, subIdx, res, inflight, seen, ehist, storeVars, schedVars>>

\* e.store.Put(res)
Probe_Put(ep) ==
    /\ pc[ep] = "put"
    /\ items' = StorePut(items, res[ep])
    /\ ehist' = [ehist EXCEPT !.put = @ \cup {res[ep]},
                              !.lastPut = MapSet(@, TargetOf(res[ep]), res[ep])]
    /\ Goto(ep, After("put"))
    /\ UNCHANGED <<now, metricVars, cur, lbl, ret, rbResults, deriveVars, hist,
                   subs, subsReaders, cancelled, lastResults, routeIdx, subIdx, res, inflight,
                   seen, storeVars, schedVars>>

\* what a recording subscriber keeps: per target, the Results in arrival order
Observe(log, r) ==
    MapSet(log, TargetOf(r),
           Append(IF TargetOf(r) \in DOMAIN log THEN log[TargetOf(r)] ELSE <<>>, r))

\* Engine.notify: muSubs.RLock
Notify_Begin(ep) ==
    /\ pc[ep] = "notify"
    /\ subsReaders' = subsReaders \cup {ep}
    /\ subIdx' = [subIdx EXCEPT ![ep] = 1]
    /\ Goto(ep, "deliver")
    /\ UNCHANGED <<now, items, metricVars, cur, lbl, ret, rbResults, deriveVars, hist,
                   subs, cancelled, lastResults, routeIdx, res, inflight, seen, ehist, storeVars, schedVars>>

\* notify without the deferred recover: the panic of a subscriber unwinds
\* notify, probeOnce and runEndpointLoop, and the goroutine dies
Notify_DeliverNoRecover(ep) ==
    /\ pc[ep] = "deliver"
    /\ subIdx[ep] <= Len(subs)
    /\ seen' = [seen EXCEPT ![subs[subIdx[ep]]] = Observe(@, res[ep])]
    /\ IF subs[subIdx[ep]] \in env.panicky
       THEN /\ Goto(ep, "crashed")
            /\ subsReaders' = subsReaders \ {ep}
            /\ UNCHANGED subIdx
       ELSE /\ subIdx' = [subIdx EXCEPT ![ep] = @ + 1]
            /\ UNCHANGED <<pc, subsReaders>>
    /\ UNCHANGED <<now, items, metricVars, cur, lbl, ret, rbResults, deriveVars, hist,
                   subs, cancelled, lastResults, routeIdx, res, inflight, ehist,
                   storeVars, schedVars>>

\* Engine.notify: sub.OnResult(res) for the next subscriber, which records
\* what it receives; where its OnResult panics, the deferred recover of the
\* wrapping func swallows the panic and the range loop goes on
Notify_Deliver(ep) ==
    /\ pc[ep] = "deliver"
    /\ subIdx[ep] <= Len(subs)
    /\ subIdx' = [subIdx EXCEPT ![ep] = @ + 1]
    /\ seen' = [seen EXCEPT ![subs[subIdx[ep]]] = Observe(@, res[ep])]
    /\ ehist' = IF subs[subIdx[ep]] \in env.panicky
                THEN [ehist EXCEPT !.recovered = @ \cup {<<subs[subIdx[ep]], res[ep]>>}]
                ELSE ehist
    /\ UNCHANGED <<now, items, metricVars, pc, cur, lbl, ret, rbResults, deriveVars, hist,
                   subs, subsReaders, cancelled, lastResults, routeIdx, res, inflight,
                   storeVars, schedVars>>

\* Engine.notify returns: muSubs.RUnlock
Notify_End(ep) ==
    /\ pc[ep] = "deliver"
    /\ subIdx[ep] > Len(subs)
    /\ subsReaders' = subsReaders \ {ep}
    /\ subIdx' = [subIdx EXCEPT ![ep] = 1]
    /\ ehist' = [ehist EXCEPT !.notified = @ \cup {[r |-> res[ep], subs |-> subs]}]
    /\ Goto(ep, After("notify"))
    /\ UNCHANGED <<now, items, metricVars, cur, lbl, ret, rbResults, deriveVars, hist,
                   subs, cancelled, lastResults, routeIdx, res, inflight, seen, storeVars, schedVars>>

\* timer.Reset with the jitter instead of the interval
Probe_NextResetJitter(ep) ==
    /\ pc[ep] = "next"
    /\ IF routeIdx[ep] < Len(RoutesOf(ep))
       THEN /\ routeIdx' = [routeIdx EXCEPT ![ep] = @ + 1]
            /\ Goto(ep, "probe")
            /\ UNCHANGED timer
       ELSE /\ Goto(ep, "wait")
            /\ timer' = [timer EXCEPT ![ep] = [st |-> "armed", at |-> Deadline(loop[ep].jit)]]
            /\ UNCHANGED routeIdx
    /\ UNCHANGED <<now, items, metricVars, cur, lbl, ret, rbResults, deriveVars, hist,
                   subs, subsReaders, cancelled, lastResults, subIdx, res, inflight, seen,
                   ehist, storeVars, env, ticks, loop>>

\* probeOnce returning after the first route
Probe_NextFirstRouteOnly(ep) ==
    /\ pc[ep] = "next"
    /\ Goto(ep, "wait")
    /\ timer' = [timer EXCEPT ![ep] = [st |-> "armed", at |-> Deadline(loop[ep].interval)]]
    /\ UNCHANGED <<now, items, metricVars, cur, lbl, ret, rbResults, deriveVars, hist,
                   subs, subsReaders, cancelled, lastResults, routeIdx, subIdx, res, inflight, seen,
                   ehist, storeVars, env, ticks, loop>>

\* probeOnce: the range loop goes to the next route, or probeOnce returns and
\* runEndpointLoop resets the timer
Probe_Next(ep) ==
    /\ pc[ep] = "next"
    /\ IF routeIdx[ep] < Len(RoutesOf(ep))
       THEN /\ routeIdx' = [routeIdx EXCEPT ![ep] = @ + 1]
            /\ Goto(ep, "probe")
            /\ UNCHANGED timer
       ELSE /\ Goto(ep, "wait")
            /\ timer' = [timer EXCEPT ![ep] = [st |-> "armed", at |-> Deadline(loop[ep].interval)]]
            /\ UNCHANGED routeIdx
    /\ UNCHANGED <<now, items, metricVars, cur, lbl, ret, rbResults, deriveVars, hist,
                   subs, subsReaders, cancelled, lastResults, subIdx, res, inflight, seen,
                   ehist, storeVars, env, ticks, loop>>

EngineLoop(ep) ==
    \/ Timer_Fire(ep)
    \/ Loop_Tick(ep)
    \/ Loop_Stop(ep)
    \/ Probe_Start(ep)
    \/ Probe_Complete(ep)
    \/ Probe_LogOnTransition(ep)
    \/ Probe_Put(ep)
    \/ Notify_Begin(ep)
    \/ Notify_Deliver(ep)
    \/ Notify_End(ep)
    \/ Probe_Next(ep)

\* Engine.Start without wg.Wait: returns as soon as ctx.Done() is closed
Start_ReturnNoWait ==
    /\ pc["main"] = "wgwait"
    /\ Goto("main", "returned")
    /\ UNCHANGED <<now, items, metricVars, cur, lbl, ret, rbResults, deriveVars, hist, engineVars>>

\* Engine.Start: the range over cfg.Endpoints, with wg.Add(1) and a goroutine
\* running runEndpointLoop for one more endpoint (map order: any)
Start_Go(ep) ==
    /\ pc["main"] = "start"
    /\ ep \in env.configured
    /\ pc[ep] = "off"
    /\ Goto(ep, "init")
    /\ UNCHANGED <<now, items, metricVars, cur, lbl, ret, rbResults, deriveVars, hist, engineVars>>

\* Engine.Start: every goroutine is started, <-ctx.Done() returns
Start_CtxDone ==
    /\ pc["main"] = "start"
    /\ \A ep \in env.configured : pc[ep] # "off"
    /\ cancelled
    /\ Goto("main", "wgwait")
    /\ UNCHANGED <<now, items, metricVars, cur, lbl, ret, rbResults, deriveVars, hist, engineVars>>

\* Engine.Start: wg.Wait() returns when every goroutine has run its deferred
\* wg.Done(), and Start returns
Start_Return ==
    /\ pc["main"] = "wgwait"
    /\ \A ep \in env.configured : pc[ep] = "stopped"
    /\ Goto("main", "returned")
    /\ UNCHANGED <<now, items, metricVars, cur, lbl, ret, rbResults, deriveVars, hist, engineVars>>

Start ==
    \/ \E ep \in Endpoints : Start_Go(ep)
    \/ Start_CtxDone
    \/ Start_Return

\* time passes while the loops are about to create their timer or wait in
\* their select; of the steps of probeOnce only the request takes time
Advance ==
    /\ now < cap
    /\ \A ep \in env.configured : pc[ep] \in {"init", "wait"}
    /\ now' = now + 1
    /\ UNCHANGED <<items, metricVars, pc, cur, lbl, ret, rbResults, deriveVars, hist, engineVars>>

\* the steps of the goroutine of ep that go on whatever select takes
LoopRun(ep) ==
    \/ Loop_Init(ep)
    \/ Loop_Tick(ep)
    \/ Probe_Start(ep)
    \/ Probe_Complete(ep)
    \/ Probe_LogOnTransition(ep)
    \/ Probe_Put(ep)
    \/ Notify_Begin(ep)
    \/ Notify_Deliver(ep)
    \/ Notify_End(ep)
    \/ Probe_Next(ep)

\* One iteration of probeOnce with WDMetrics as the only subscriber, up to the
\* call of its OnResult: Validate, the Result, logOnTransition, Store.Put, and
\* notify calling m.OnResult(res), which then runs step by step.  routeIdx is
\* the route the loop probes next.
Loop_ProbeAndDeliver(ep) ==
    /\ pc[ep] = "wait"
    /\ now < cap
    /\ \E net \in NetOutcomes(ep) :
       \E v \in {CallValidate(ep, RoutesOf(ep)[routeIdx[ep]], net, now)} :
       \E r \in {MkResult(ep, RoutesOf(ep)[routeIdx[ep]], v.Status, v.Duration, v.Err,
                          v.TLS, now + 1)} :
             /\ res' = [res EXCEPT ![ep] = r]
             /\ lastResults' = logOnTransition(lastResults, r).Last
             /\ items' = StorePut(items, r)
             /\ cur' = [cur EXCEPT ![ep] = r]
    /\ now' = now + 1
    /\ routeIdx' = [routeIdx EXCEPT ![ep] = (@ % Len(RoutesOf(ep))) + 1]
    /\ ret' = [ret EXCEPT ![ep] = "wait"]
    /\ Goto(ep, "or_ts")
    /\ UNCHANGED <<metricVars, lbl, rbResults, deriveVars, hist,
                   subs, subsReaders, cancelled, subIdx, inflight, seen, ehist, storeVars, schedVars>>

\* m.RebuildAll() called while the loops run
StartRebuildAll ==
    /\ pc["main"] = "idle"
    /\ Goto("main", "rb_snap")
    /\ UNCHANGED <<now, items, metricVars, cur, lbl, ret, rbResults, deriveVars, hist, engineVars>>

(* ------------------- the initial jitter, in nanoseconds ----------------- *)
\* time.Duration: whole seconds and the nanoseconds below a second
NsPerSecond == 1000000000
Dur(s, ns) == [s |-> s, ns |-> ns]
DurPositive(d) == d.s > 0 \/ (d.s = 0 /\ d.ns > 0)
DurLess(a, b) == a.s < b.s \/ (a.s = b.s /\ a.ns < b.ns)

\* interval / 10 on a positive Duration: the integer division truncates
DurDiv10(d) ==
    [s |-> d.s \div 10, ns |-> ((d.s % 10) * (NsPerSecond \div 10)) + (d.ns \div 10)]

\* the Duration one nanosecond below a positive one
DurPred(d) == IF d.ns > 0 THEN Dur(d.s, d.ns - 1) ELSE Dur(d.s - 1, NsPerSecond - 1)

\* rand.Int63n(n): it panics for n <= 0, else it returns some value of [0, n);
\* of a range longer than MaxJitterNs the ends and the second value are drawn
Int63n(n) ==
    IF ~DurPositive(n) THEN {[panic |-> TRUE, v |-> Dur(0, 0)]}
    ELSE IF n.s = 0 /\ n.ns <= MaxJitterNs
    THEN {[panic |-> FALSE, v |-> Dur(0, k)] : k \in 0..(n.ns - 1)}
    ELSE {[panic |-> FALSE, v |-> x] : x \in {Dur(0, 0), Dur(0, 1), DurPred(n)}}

\* runEndpointLoop up to the for loop, with interval and jitter in nanoseconds:
\* a panic of rand.Int63n in the goroutine of the loop ends the process
Loop_InitNs(ep) ==
    /\ pc[ep] = "init"
    /\ \E iv \in {IF DurPositive(env.interval) THEN env.interval ELSE Dur(DefaultInterval, 0)} :
       \E o \in Int63n(DurDiv10(iv)) :
          /\ loop' = [loop EXCEPT ![ep] = [interval |-> iv, jit |-> o.v, since |-> 0]]
          /\ timer' = IF o.panic THEN timer
                      ELSE [timer EXCEPT ![ep] = [st |-> "armed", at |-> 0]]
          /\ Goto(ep, IF o.panic THEN "crashed" ELSE "wait")
    /\ UNCHANGED <<now, items, metricVars, cur, lbl, ret, rbResults, deriveVars, hist,
                   subs, subsReaders, cancelled, lastResults, routeIdx, subIdx, res, inflight,
                   seen, ehist, storeVars, env, ticks>>

(* -------------------- logOnTransition called on its own ----------------- *)
\* Results of two targets as probeOnce builds them from what Validate returns
LogResults ==
    {MkResult(ep, "r1", se[1], 1, se[2], NilReport, 0) :
        ep \in Endpoints,
        se \in {<<"valid", NilErr>>,
                <<"unexpected-status-code", NilErr>>,
                <<"invalid-request-execution", "dial tcp: connection refused">>,
                <<"request-execution-timeout", "context deadline exceeded">>}}

\* probeOnce from e.logOnTransition(res) to e.store.Put(res), for a Result
\* given: the Store holds the previous Result of the key when the call is made
LogThenPut ==
    \E r \in LogResults :
       /\ lgOut' = [Entry |-> logOnTransition(lastResults, r).Entry, R |-> r,
                    Prev |-> IF keyOf(r) \in DOMAIN items THEN items[keyOf(r)] ELSE NoResult]
       /\ lastResults' = logOnTransition(lastResults, r).Last
       /\ items' = StorePut(items, r)
       /\ UNCHANGED <<now, metricVars, pc, cur, lbl, ret, rbResults, dsIn, dsOut, vrIn, vrOut,
                      vaIn, vaOut, tcIn, tcOut, hist, subs, subsReaders, cancelled, routeIdx,
                      subIdx, res, inflight, seen, ehist, storeVars, schedVars>>

(* ------------------------------- Init ----------------------------------- *)
\* NewStore, NewWDMetrics (BuildInfo set to 1), no call in progress
InitBase ==
    /\ now = 0
    /\ items = EmptyMap
    /\ buildInfo = 1
    /\ ts = EmptyMap /\ val = EmptyMap /\ dur = EmptyMap /\ cert = EmptyMap
    /\ lastByKey = EmptyMap /\ lastCertByKey = EmptyMap
    /\ lastMu = NoThread /\ lastCertMu = NoThread
    /\ cur = [t \in Threads |-> NoResult]
    /\ lbl = [t \in Threads |-> lblAllOf(NoResult)]
    /\ ret = [t \in Threads |-> "idle"]
    /\ rbResults = <<>>
    /\ hist = NoHist
    /\ subsReaders = {}
    /\ cancelled = FALSE
    /\ lastResults = EmptyMap
    /\ routeIdx = [ep \in Endpoints |-> 1]
    /\ subIdx = [ep \in Endpoints |-> 1]
    /\ res = [ep \in Endpoints |-> NoResult]
    /\ inflight = {}
    /\ seen = [sb \in Subscribers |-> EmptyMap]
    /\ ehist = [put |-> {}, notified |-> {}, recovered |-> {}, lastPut |-> EmptyMap,
                made |-> [ep \in Endpoints |-> <<>>], started |-> [ep \in Endpoints |-> <<>>]]
    /\ storeMu = [writer |-> NoThread, readers |-> {}]
    /\ sOut = <<>> /\ sRem = {}
    /\ snap = [taken |-> FALSE, data |-> <<>>, puts |-> EmptyMap]

InitCommon ==
    /\ InitBase
    /\ vaIn = NoValidateInput /\ vaOut = NoValidateOutput
    /\ tcIn = NoCheckerInput /\ tcOut = NoCheckerOutput
    /\ lgOut = NoLog

Init ==
    /\ InitCommon
    /\ subs = <<>>
    /\ cap = MaxTime
    /\ pc = [t \in Threads |-> IF t = "main" THEN "idle" ELSE "off"]
    /\ dsIn = NoResult /\ dsOut = NotDerived
    /\ vrIn = NoResponseInput /\ vrOut = NotValidated
    /\ env = DefaultEnv /\ timer = [ep \in Endpoints |-> NoTimer] /\ ticks = NoTicks
    /\ loop = [ep \in Endpoints |-> NoLoop]

Next ==
    \/ Tick
    \/ CallPutOnResult
    \/ CallRebuildAll
    \/ OnResult("main")
    \/ RebuildAll("main")

Spec == Init /\ [][Next]_vars

InitDerive ==
    /\ InitCommon
    /\ subs = <<>>
    /\ cap = 0
    /\ pc = [t \in Threads |-> "off"]
    /\ env = DefaultEnv /\ timer = [ep \in Endpoints |-> NoTimer] /\ ticks = NoTicks
    /\ dsIn \in DeriveInputs
    /\ dsOut = NotDerived
    /\ vrIn = NoResponseInput /\ vrOut = NotValidated
    /\ loop = [ep \in Endpoints |-> NoLoop]

NextDerive == ApplyDeriveStatus

SpecDerive == InitDerive /\ [][NextDerive]_vars

\* a response, a body limit and a rule, to be validated
InitResponse ==
    /\ InitCommon
    /\ subs = <<>>
    /\ cap = 0
    /\ pc = [t \in Threads |-> "off"]
    /\ dsIn = NoResult /\ dsOut = NotDerived
    /\ vrIn \in ResponseInputs
    /\ vrOut = NotValidated
    /\ env = DefaultEnv /\ timer = [ep \in Endpoints |-> NoTimer] /\ ticks = NoTicks
    /\ loop = [ep \in Endpoints |-> NoLoop]

NextResponse == ApplyValidateResponse

SpecResponse == InitResponse /\ [][NextResponse]_vars

\* a request, a route, a rule or none, the inspection flag and what the
\* network answers, to be validated
InitValidate ==
    /\ InitBase
    /\ subs = <<>>
    /\ cap = 0
    /\ pc = [t \in Threads |-> "off"]
    /\ dsIn = NoResult /\ dsOut = NotDerived
    /\ vrIn = NoResponseInput /\ vrOut = NotValidated
    /\ \E rc \in Requests, rt \in RouteValues, v \in Validations, cc \in BOOLEAN :
          \E n \in TransportErrors \cup TransportResponses(SchemeOf(rc)) :
             vaIn = [RC |-> rc, Route |-> rt, Validation |-> v, CheckCerts |-> cc, Net |-> n]
    /\ vaOut = NoValidateOutput
    /\ tcIn = NoCheckerInput /\ tcOut = NoCheckerOutput
    /\ lgOut = NoLog
    /\ env = DefaultEnv /\ timer = [ep \in Endpoints |-> NoTimer] /\ ticks = NoTicks
    /\ loop = [ep \in Endpoints |-> NoLoop]

NextValidate == ApplyValidate

SpecValidate == InitValidate /\ [][NextValidate]_vars

\* an error or a connection state, to be handed to the TLS checker
InitTLSChecker ==
    /\ InitBase
    /\ subs = <<>>
    /\ cap = 0
    /\ pc = [t \in Threads |-> "off"]
    /\ dsIn = NoResult /\ dsOut = NotDerived
    /\ vrIn = NoResponseInput /\ vrOut = NotValidated
    /\ vaIn = NoValidateInput /\ vaOut = NoValidateOutput
    /\ tcIn \in CheckerInputs
    /\ tcOut = NoCheckerOutput
    /\ lgOut = NoLog
    /\ env = DefaultEnv /\ timer = [ep \in Endpoints |-> NoTimer] /\ ticks = NoTicks
    /\ loop = [ep \in Endpoints |-> NoLoop]

NextTLSChecker == ApplyCheckHandshakeError \/ ApplyInspect

SpecTLSChecker == InitTLSChecker /\ [][NextTLSChecker]_vars

\* NewEngine, Start: every endpoint loop waits on its first timer; subscribers
\* register while the loops run.
InitEngine ==
    /\ InitCommon
    /\ subs = <<"s1">>
    /\ cap = MaxProbes
    /\ pc = [t \in Threads |-> IF t = "main" THEN "off" ELSE "wait"]
    /\ dsIn = NoResult /\ dsOut = NotDerived
    /\ vrIn = NoResponseInput /\ vrOut = NotValidated
    /\ env = [DefaultEnv EXCEPT !.maxTicks = MaxProbes]
    /\ timer = [ep \in Endpoints |-> [st |-> "armed", at |-> 0]]
    /\ ticks = NoTicks
    /\ loop = [ep \in Endpoints |-> [interval |-> DefaultInterval, jit |-> 0, since |-> 0]]

NextEngine ==
    \/ \E ep \in Endpoints : EngineLoop(ep)
    \/ Subscribe("s2")
    \/ Cancel

SpecEngine == InitEngine /\ [][NextEngine]_vars

\* Start is running with s1 subscribed, over a configuration in which the URL
\* of an endpoint or the proxy URL of a route does not parse
InitConfigError ==
    /\ InitCommon
    /\ subs = <<"s1">>
    /\ cap = MaxProbes
    /\ pc = [t \in Threads |-> IF t = "main" THEN "off" ELSE "wait"]
    /\ dsIn = NoResult /\ dsOut = NotDerived
    /\ vrIn = NoResponseInput /\ vrOut = NotValidated
    /\ \E bad \in {<<{"ep1"}, {}>>, <<{}, {"r1"}>>, <<{}, {"r2"}>>, <<{"ep2"}, {"r1"}>>} :
          env = [DefaultEnv EXCEPT !.maxTicks = MaxProbes, !.badURL = bad[1], !.badProxy = bad[2]]
    /\ timer = [ep \in Endpoints |-> [st |-> "armed", at |-> 0]]
    /\ ticks = NoTicks
    /\ loop = [ep \in Endpoints |-> [interval |-> DefaultInterval, jit |-> 0, since |-> 0]]

NextConfigError ==
    \/ \E ep \in Endpoints : EngineLoop(ep)
    \/ Cancel

SpecConfigError == InitConfigError /\ [][NextConfigError]_vars

\* an Engine whose probeOnce is handed one Result after another
InitLog ==
    /\ InitCommon
    /\ subs = <<>>
    /\ cap = 0
    /\ pc = [t \in Threads |-> "off"]
    /\ dsIn = NoResult /\ dsOut = NotDerived
    /\ vrIn = NoResponseInput /\ vrOut = NotValidated
    /\ env = DefaultEnv /\ timer = [ep \in Endpoints |-> NoTimer] /\ ticks = NoTicks
    /\ loop = [ep \in Endpoints |-> NoLoop]

NextLog == LogThenPut

SpecLog == InitLog /\ [][NextLog]_vars

\* runEndpointLoop of one endpoint begins; intervalFor returns a negative
\* interval, none, a few nanoseconds, or seconds
InitJitter ==
    /\ InitCommon
    /\ subs = <<>>
    /\ cap = 0
    /\ dsIn = NoResult /\ dsOut = NotDerived
    /\ vrIn = NoResponseInput /\ vrOut = NotValidated
    /\ \E ep \in Endpoints :
       \E iv \in {Dur(0 - 1, 0), Dur(0, 0), Dur(0, 1), Dur(0, 9), Dur(0, 10), Dur(0, 19),
                  Dur(0, 250), Dur(0, 10 * MaxJitterNs), Dur(1, 0), Dur(20, 0), Dur(60, 0)} :
          /\ env = [DefaultEnv EXCEPT !.interval = iv, !.configured = {ep}]
          /\ pc = [t \in Threads |-> IF t = ep THEN "init" ELSE "off"]
    /\ timer = [ep \in Endpoints |-> NoTimer]
    /\ ticks = NoTicks
    /\ loop = [ep \in Endpoints |-> NoLoop]

NextJitter == \E ep \in Endpoints : Loop_InitNs(ep)

SpecJitter == InitJitter /\ [][NextJitter]_vars

\* Start is running with s1 and s2 subscribed, in this order; the OnResult of
\* some of them panics at every call
InitPanic ==
    /\ InitCommon
    /\ subs = <<"s1", "s2">>
    /\ cap = MaxProbes
    /\ pc = [t \in Threads |-> IF t = "main" THEN "off" ELSE "wait"]
    /\ dsIn = NoResult /\ dsOut = NotDerived
    /\ vrIn = NoResponseInput /\ vrOut = NotValidated
    /\ \E p \in (SUBSET Subscribers) \ {{}} :
          env = [DefaultEnv EXCEPT !.maxTicks = MaxProbes, !.panicky = p]
    /\ timer = [ep \in Endpoints |-> [st |-> "armed", at |-> 0]]
    /\ ticks = NoTicks
    /\ loop = [ep \in Endpoints |-> [interval |-> DefaultInterval, jit |-> 0, since |-> 0]]

NextPanic ==
    \/ \E ep \in Endpoints : EngineLoop(ep)
    \/ Cancel

SpecPanic == InitPanic /\ [][NextPanic]_vars

\* engine.Start(ctx) is called, with s1 subscribed, for a configuration with
\* no endpoint, one endpoint or two, and an interval of 10
InitLife ==
    /\ InitCommon
    /\ subs = <<"s1">>
    /\ cap = MaxLifeProbes
    /\ pc = [t \in Threads |-> IF t = "main" THEN "start" ELSE "off"]
    /\ dsIn = NoResult /\ dsOut = NotDerived
    /\ vrIn = NoResponseInput /\ vrOut = NotValidated
    /\ \E c \in {{}, {"ep2"}, Endpoints} :
          env = [DefaultEnv EXCEPT !.maxTicks = MaxLifeProbes, !.configured = c, !.interval = 10]
    /\ timer = [ep \in Endpoints |-> NoTimer]
    /\ ticks = NoTicks
    /\ loop = [ep \in Endpoints |-> NoLoop]

NextLife ==
    \/ Start
    \/ \E ep \in Endpoints : Loop_Init(ep) \/ EngineLoop(ep)
    \/ Cancel

\* Every goroutine that can take a step takes one eventually, and every probe
\* dispatched completes.  A select with ctx.Done() ready at every evaluation
\* takes that case eventually (the choice among ready cases is uniformly
\* random).  Nothing obliges the caller to cancel or a timer to expire.
FairLife ==
    /\ WF_vars(Start)
    /\ \A ep \in Endpoints : WF_vars(LoopRun(ep)) /\ SF_vars(Loop_Stop(ep))

SpecLife == InitLife /\ [][NextLife]_vars /\ FairLife

\* runEndpointLoop of one endpoint begins at time 0, with s1 subscribed, the
\* clock in seconds and timer deadlines tracked against it; intervalFor
\* returns a negative interval, none, or 20 s
InitTimed ==
    /\ InitCommon
    /\ subs = <<"s1">>
    /\ cap = MaxClock
    /\ dsIn = NoResult /\ dsOut = NotDerived
    /\ vrIn = NoResponseInput /\ vrOut = NotValidated
    /\ \E ep \in Endpoints, iv \in {-1, 0, 20} :
          /\ env = [DefaultEnv EXCEPT !.timed = TRUE, !.interval = iv, !.maxTicks = MaxClock,
                                      !.configured = {ep}]
          /\ pc = [t \in Threads |-> IF t = ep THEN "init" ELSE "off"]
    /\ timer = [ep \in Endpoints |-> NoTimer]
    /\ ticks = NoTicks
    /\ loop = [ep \in Endpoints |-> NoLoop]

NextTimed ==
    \/ Advance
    \/ \E ep \in Endpoints : Timer_Fire(ep) \/ LoopRun(ep)

SpecTimed == InitTimed /\ [][NextTimed]_vars

\* the routes of all endpoints together
TotalRoutes == Len(RoutesOf("ep1")) + Len(RoutesOf("ep2"))

\* engine.Start(ctx) is called with s1 subscribed and the context is never
\* cancelled; the server of the endpoint slow, if any, may be slow without bound
InitProgress(slow) ==
    /\ InitCommon
    /\ subs = <<"s1">>
    /\ cap = MaxFairTicks * TotalRoutes
    /\ pc = [t \in Threads |-> IF t = "main" THEN "start" ELSE "off"]
    /\ dsIn = NoResult /\ dsOut = NotDerived
    /\ vrIn = NoResponseInput /\ vrOut = NotValidated
    /\ env = [DefaultEnv EXCEPT !.maxTicks = MaxFairTicks, !.interval = 10, !.slow = slow]
    /\ timer = [ep \in Endpoints |-> NoTimer]
    /\ ticks = NoTicks
    /\ loop = [ep \in Endpoints |-> NoLoop]

InitFair == InitProgress("none")

InitIndep == \E a \in Endpoints : InitProgress(a)

NextFair ==
    \/ \E ep \in Endpoints : Start_Go(ep)
    \/ \E ep \in Endpoints : Timer_Fire(ep) \/ LoopRun(ep)

\* Start gets to run every goroutine, every timer expires, every goroutine
\* that can take a step takes one eventually, every probe dispatched completes
FairAll ==
    /\ WF_vars(\E ep \in Endpoints : Start_Go(ep))
    /\ \A ep \in Endpoints : WF_vars(Timer_Fire(ep) \/ LoopRun(ep))

SpecFair == InitFair /\ [][NextFair]_vars /\ FairAll

\* As FairAll, but for the loop of the slow endpoint: nothing obliges its
\* probes to complete, or the loop to take any step
FairButSlow ==
    /\ WF_vars(\E ep \in Endpoints : Start_Go(ep))
    /\ \A ep \in Endpoints : WF_vars(ep # env.slow /\ (Timer_Fire(ep) \/ LoopRun(ep)))

SpecIndep == InitIndep /\ [][NextFair]_vars /\ FairButSlow

\* main: Subscribe(wdm), go engine.Start(ctx); RebuildAll may be called while
\* the loops deliver Results.
InitConc ==
    /\ InitCommon
    /\ subs = <<"wdm">>
    /\ cap = MaxConcProbes
    /\ pc = [t \in Threads |-> IF t = "main" THEN "idle" ELSE "wait"]
    /\ dsIn = NoResult /\ dsOut = NotDerived
    /\ vrIn = NoResponseInput /\ vrOut = NotValidated
    /\ env = DefaultEnv /\ timer = [ep \in Endpoints |-> NoTimer] /\ ticks = NoTicks
    /\ loop = [ep \in Endpoints |-> NoLoop]

NextConc ==
    \/ \E ep \in Endpoints : Loop_ProbeAndDeliver(ep)
    \/ \E ep \in Endpoints : OnResult(ep)
    \/ StartRebuildAll
    \/ RebuildAll("main")
    \/ OnResult("main")

SpecConc == InitConc /\ [][NextConc]_vars

\* goroutines calling Put and one calling Snapshot on a Store of their own
InitStore ==
    /\ InitCommon
    /\ subs = <<>>
    /\ cap = MaxPuts
    /\ pc = [t \in Threads |-> "idle"]
    /\ dsIn = NoResult /\ dsOut = NotDerived
    /\ vrIn = NoResponseInput /\ vrOut = NotValidated
    /\ env = DefaultEnv /\ timer = [ep \in Endpoints |-> NoTimer] /\ ticks = NoTicks
    /\ loop = [ep \in Endpoints |-> NoLoop]

NextStore ==
    \/ \E w \in Endpoints : StoreWriter(w)
    \/ StoreReader("main")

SpecStore == InitStore /\ [][NextStore]_vars

(* ======================================================================= *)
(*                                 Claims                                  *)
(* ======================================================================= *)
BaseOf(l) ==
    [group |-> l.group, endpoint |-> l.endpoint, protocol |-> l.protocol,
     url |-> l.url, route |-> l.route]
SeriesOf(vec, b) == {l \in DOMAIN vec : BaseOf(l) = b}
LiveBases == {BaseOf(l) : l \in (DOMAIN val) \cup (DOMAIN dur) \cup (DOMAIN cert) \cup (DOMAIN ts)}
Quiescent == pc["main"] = "idle"

\* C1: under OnResult calls applied one after another, a target key never has
\* more than one live endpoint_validation series nor more than one live
\* endpoint_duration series, also between the steps of one call; once a call
\* has returned the key has exactly one of each, labelled with the derived
\* status and the is_error of its most recent Result.
C1_OneSeriesPerKey ==
    /\ \A b \in LiveBases :
          /\ Cardinality(SeriesOf(val, b)) <= 1
          /\ Cardinality(SeriesOf(dur, b)) <= 1
    /\ Quiescent =>
          \A k \in DOMAIN items :
             LET r == items[k]
                 V == SeriesOf(val, lblBaseOf(r))
                 D == SeriesOf(dur, lblBaseOf(r))
             IN /\ Cardinality(V) = 1 /\ D = V
                /\ \A l \in V : /\ l.status = deriveStatus(r)
                                /\ (l.is_error = "true") <=> (r.Err # NilErr)
                                /\ l.is_error \in {"true", "false"}
                                /\ val[l] = 1

\* the old validation series of a key is gone, the old duration series is about
\* to go, and the new label set differs from the old one
C1_Witness ==
    /\ pc["main"] = "or_delD"
    /\ hist.lastOp = "onresult"
    /\ baseKeyOf(cur["main"]) \in DOMAIN lastByKey
    /\ lastByKey[baseKeyOf(cur["main"])].status # lbl["main"].status
    /\ SeriesOf(val, lblBaseOf(cur["main"])) = {}
    /\ Cardinality(SeriesOf(dur, lblBaseOf(cur["main"]))) = 1

\* C3: the exported endpoint gauges are a function of the latest Result per
\* target: RebuildAll, which starts from empty vectors and empty tracking and
\* replays the Store snapshot, ends with the series set (labels and values)
\* that the sequence of Put/OnResult steps had left.
C3_ExportedIsFunctionOfLatest ==
    (Quiescent /\ hist.lastOp = "rebuild") => Exported = hist.exported

C3_Witness ==
    /\ Quiescent /\ hist.lastOp = "rebuild" /\ hist.inRow = 1
    /\ hist.superseded = "certs-changed"
    /\ Cardinality(DOMAIN items) = 2
    /\ Cardinality(DOMAIN val) = 2 /\ Cardinality(DOMAIN cert) >= 2

\* C5: once OnResult(r) has returned, a key whose latest Result carries a TLS
\* report with hadTLS has exactly one certificate series per certificate of that
\* report (with its days left) and nothing from an earlier report; a key whose
\* latest Result has no report or hadTLS = false has no certificate series and
\* no recorded list.
C5_CertSeriesFollowLatest ==
    Quiescent =>
       \A k \in DOMAIN items :
          LET r == items[k]
              C == SeriesOf(cert, lblBaseOf(r))
              cs == r.TLS.Certificates
          IN IF ~r.TLS.Nil /\ r.TLS.HadTLS
             THEN /\ Cardinality(C) = Len(cs)
                  /\ \A i \in 1..Len(cs) :
                        \E l \in C : /\ l.cert_position = Itoa(cs[i].Position)
                                     /\ l.cert_serial = cs[i].SerialHex
                                     /\ l.cert_cn = cs[i].CommonName
                                     /\ l.cert_issuer_cn = cs[i].IssuerCN
                                     /\ (l.cert_is_ca = "true") <=> cs[i].IsCA
                                     /\ cert[l] = cs[i].DaysLeft
                  /\ baseKeyOf(r) \in DOMAIN lastCertByKey
                  /\ Range(lastCertByKey[baseKeyOf(r)]) = C
             ELSE /\ C = {}
                  /\ baseKeyOf(r) \notin DOMAIN lastCertByKey

\* a key that had certificate series got a Result without TLS
C5_Witness ==
    /\ Quiescent /\ hist.lastOp = "onresult" /\ hist.superseded = "certs-dropped"
    /\ cert # EmptyMap

\* C6: RebuildAll called twice in a row over an unchanged Store leaves the
\* series set (labels and values) and the tracking maps of the first call.
C6_RebuildAllIdempotent ==
    (Quiescent /\ hist.lastOp = "rebuild" /\ hist.inRow = 2) =>
        /\ Exported = hist.exported
        /\ Tracking = hist.tracking

C6_Witness ==
    /\ Quiescent /\ hist.lastOp = "rebuild" /\ hist.inRow = 2
    /\ Cardinality(DOMAIN items) = 2
    /\ cert # EmptyMap
    /\ \E k \in DOMAIN items : items[k].At < now

\* C4: deriveStatus returns the label of the first matching rule:
\* invalid-tls-missing, invalid-tls-chain, the TLS label of the error text,
\* the explicit status, unknown-error, valid.
TLSSubstrings ==
    {"expired-cert-leaf", "invalid-tls-chain", "invalid-tls-hostname", "invalid-tls-certificate",
     "unknownauthorityerror", "certificateinvaliderror", "hostnameerror", "handshake", "tls"}
TLSTaxonomy ==
    {"expired-cert-leaf", "invalid-tls-chain", "invalid-tls-hostname", "invalid-tls-certificate",
     "invalid-tls-unknown-authority", "invalid-tls-handshake", "invalid-tls-other"}
ErrMatchesTLS(r) == r.Err # NilErr /\ \E sub \in TLSSubstrings : Contains(ToLower(r.Err), sub)

C4_DeriveStatusPriority ==
    dsOut # NotDerived =>
       LET r == dsIn
           missing == ~r.TLS.Nil /\ ~r.TLS.HadTLS
           badChain == ~r.TLS.Nil /\ r.TLS.HadTLS /\ ~r.TLS.ChainValid
       IN /\ missing => dsOut = "invalid-tls-missing"
          /\ badChain => dsOut = "invalid-tls-chain"
          /\ (~missing /\ ~badChain /\ ErrMatchesTLS(r)) =>
                (dsOut \in TLSTaxonomy /\ dsOut = mapTLSErrorToStatus(r.Err))
          /\ (~missing /\ ~badChain /\ ~ErrMatchesTLS(r) /\ r.Status # "") => dsOut = r.Status
          /\ (~missing /\ ~badChain /\ ~ErrMatchesTLS(r) /\ r.Status = "" /\ r.Err # NilErr) =>
                dsOut = "unknown-error"
          /\ (~missing /\ ~badChain /\ r.Status = "" /\ r.Err = NilErr) => dsOut = "valid"

\* an invalid chain outranks an error text that names another TLS label and an
\* explicit status
C4_Witness ==
    /\ dsOut = "invalid-tls-chain"
    /\ dsIn.TLS.HadTLS /\ ~dsIn.TLS.ChainValid
    /\ Contains(dsIn.Err, "expired-cert-leaf")
    /\ dsIn.Status = "unexpected-body-regex"

(* --------------------------- concurrent metrics ------------------------- *)
AllQuiet == \A t \in Threads : pc[t] \in {"idle", "wait"}
KeyOfLabels(l) ==
    l.group \o NUL \o l.endpoint \o NUL \o l.protocol \o NUL \o l.url \o NUL \o l.route

\* C2: with endpoint loops calling OnResult while RebuildAll runs, once every
\* call has returned each target key has at most one live validation series,
\* at most one live duration series and at most one live certificate series per
\* chain position, and no live series of a tracked key differs from what
\* lastByKey / lastCertByKey track for it.
C2_OneSeriesPerKeyConcurrent ==
    AllQuiet =>
       /\ \A b \in LiveBases :
             /\ Cardinality(SeriesOf(val, b)) <= 1
             /\ Cardinality(SeriesOf(dur, b)) <= 1
             /\ \A l1, l2 \in SeriesOf(cert, b) :
                   l1.cert_position = l2.cert_position => l1 = l2
       /\ \A l \in (DOMAIN val) \cup (DOMAIN dur) :
             KeyOfLabels(l) \in DOMAIN lastByKey => lastByKey[KeyOfLabels(l)] = l
       /\ \A l \in DOMAIN cert :
             KeyOfLabels(l) \in DOMAIN lastCertByKey =>
                l \in Range(lastCertByKey[KeyOfLabels(l)])

(* -------------------------------- Store --------------------------------- *)
\* C7: the Store holds one Result per target, the last one put for it, at
\* every step of interleaved Put and Snapshot calls; a slice returned by
\* Snapshot holds exactly the Results that were the last put per target when
\* it was taken, whatever is put afterwards.
C7_StoreKeepsLastPutPerKey ==
    /\ Cardinality(DOMAIN items) = Cardinality(DOMAIN ehist.lastPut)
    /\ \A tg \in DOMAIN ehist.lastPut :
          /\ keyOf(ehist.lastPut[tg]) \in DOMAIN items
          /\ items[keyOf(ehist.lastPut[tg])] = ehist.lastPut[tg]
    /\ snap.taken =>
          /\ Len(snap.data) = Cardinality(DOMAIN snap.puts)
          /\ Range(snap.data) = Range(snap.puts)

\* a snapshot of two targets was returned, and a later Put has overwritten one
\* of the Results it holds
C7_Witness ==
    /\ snap.taken /\ Len(snap.data) = 2
    /\ \E i \in 1..2 : /\ keyOf(snap.data[i]) \in DOMAIN items
                       /\ items[keyOf(snap.data[i])].At > snap.data[i].At
    /\ \A t \in Threads : pc[t] = "idle"

(* -------------------------------- Engine -------------------------------- *)
Delivered == {n.r : n \in ehist.notified}
Occurrences(sq, r) == Cardinality({i \in 1..Len(sq) : sq[i] = r})
SeenOf(sb, tg) == IF tg \in DOMAIN seen[sb] THEN seen[sb][tg] ELSE <<>>
InNotify(r) == \E ep \in Endpoints : res[ep] = r /\ pc[ep] \in {"notify", "deliver"}

\* C8: a Result a subscriber has received was put before, and the Store holds
\* it or a later Result of its key; once notify has returned for a Result,
\* every subscriber registered when notify ran has received it exactly once
\* and no other subscriber has; every Result put is notified next.
C8_PutThenNotifyEachSubscriberOnce ==
    /\ \A sb \in Subscribers : \A tg \in DOMAIN seen[sb] : \A i \in 1..Len(seen[sb][tg]) :
          LET r == seen[sb][tg][i]
          IN /\ r \in ehist.put
             /\ keyOf(r) \in DOMAIN items
             /\ items[keyOf(r)].At >= r.At
    /\ \A n \in ehist.notified : \A sb \in Subscribers :
          Occurrences(SeenOf(sb, TargetOf(n.r)), n.r) =
              (IF sb \in Range(n.subs) THEN 1 ELSE 0)
    /\ \A r \in ehist.put : r \in Delivered \/ InNotify(r)

\* one Result went to s1 alone, a later one to s1 and to s2, registered in between
C8_Witness ==
    /\ \E n \in ehist.notified : n.subs = <<"s1">>
    /\ \E n \in ehist.notified : n.subs = <<"s1", "s2">>
    /\ \E tg \in DOMAIN seen["s2"] : Len(seen["s2"][tg]) = 1

\* C9: per target, every subscriber receives the Results in the order of their
\* completion times, the Store holds the latest one put, and when a later
\* Result of the target has been put the earlier one has been put and notified.
C9_PerKeyOrder ==
    /\ \A sb \in Subscribers : \A tg \in DOMAIN seen[sb] :
          \A i, j \in 1..Len(seen[sb][tg]) :
             i < j => seen[sb][tg][i].At < seen[sb][tg][j].At
    /\ \A r \in ehist.put : items[keyOf(r)].At >= r.At
    /\ \A r1, r2 \in ehist.put :
          (TargetOf(r1) = TargetOf(r2) /\ r1.At < r2.At) => r1 \in Delivered

\* a target was probed twice; both Results were put and reached s1, in order
C9_Witness ==
    \E tg \in DOMAIN seen["s1"] :
       /\ Len(seen["s1"][tg]) = 2
       /\ seen["s1"][tg][1].Status # seen["s1"][tg][2].Status
       /\ items[keyOf(seen["s1"][tg][2])] = seen["s1"][tg][2]

InFlightOf(ep) == {x \in inflight : x[1] = ep}
IsPrefix(a, b) == Len(a) <= Len(b) /\ \A i \in 1..Len(a) : a[i] = b[i]

\* C10: an endpoint has at most one probe in flight; within a tick its routes
\* are started in their listed order; while the probe of a route after the
\* first is in flight, the Result of the route before it, made in this tick, is
\* in the Store and has been notified.
C10_RoutesOneAtATimeInOrder ==
    \A ep \in Endpoints :
       /\ Cardinality(InFlightOf(ep)) <= 1
       /\ IsPrefix(ehist.started[ep], RoutesOf(ep))
       /\ \A x \in InFlightOf(ep) :
             /\ Len(ehist.made[ep]) = Len(ehist.started[ep]) - 1
             /\ \A i \in 1..Len(ehist.made[ep]) :
                   LET r == ehist.made[ep][i]
                   IN /\ r.Route = RoutesOf(ep)[i]
                      /\ r \in Delivered
                      /\ items[keyOf(r)] = r

\* the second route of ep1 is in flight while the probe of ep2 is in flight too
C10_Witness ==
    /\ InFlightOf("ep1") = {<<"ep1", "r2">>}
    /\ InFlightOf("ep2") = {<<"ep2", "r1">>}
    /\ ehist.started["ep1"] = <<"r1", "r2">>

(* --------------------------- ValidateResponse --------------------------- *)
Validated == vrOut # NotValidated
StatusDiffers == vrIn.Resp.StatusCode # vrIn.Rule.StatusCode
\* the first value of the response header named k, letter case of the name
\* apart; "" when the response has no such header
FirstValueAnyCase(h, k) ==
    IF \E hk \in DOMAIN h : ToLower(hk) = ToLower(k) /\ Len(h[hk]) > 0
    THEN h[CHOOSE hk \in DOMAIN h : ToLower(hk) = ToLower(k) /\ Len(h[hk]) > 0][1]
    ELSE ""
HeaderDiffers ==
    \E k \in DOMAIN vrIn.Rule.Headers :
       FirstValueAnyCase(vrIn.Resp.Header, k) # vrIn.Rule.Headers[k]
ReadFails == LimitRead(vrIn.Resp.Body, vrIn.Limit).Err # "none"
\* the first min(limit, length) bytes of the body
BodyPrefix ==
    LET len == Len(vrIn.Resp.Body.Data)
        n == IF vrIn.Limit < len THEN vrIn.Limit ELSE len
    IN IF n <= 0 THEN "" ELSE SubSeq(vrIn.Resp.Body.Data, 1, n)
PatternFails == vrIn.Rule.BodyRegex # "" /\ ~RegexpMatch(vrIn.Rule.BodyRegex, BodyPrefix)

\* C18: ValidateResponse returns unexpected-status-code when the status code
\* differs, whatever the headers and the body; else unexpected-header-value
\* when a required header does not match, whatever the body; else, the body
\* read succeeding, unexpected-body-regex when a non-empty pattern does not
\* match the prefix read; else valid.  None of the four carries an error.
C18_ChecksInOrder ==
    Validated =>
       /\ StatusDiffers => vrOut = [Status |-> "unexpected-status-code", Err |-> NilErr]
       /\ (~StatusDiffers /\ HeaderDiffers) =>
             vrOut = [Status |-> "unexpected-header-value", Err |-> NilErr]
       /\ (~StatusDiffers /\ ~HeaderDiffers /\ vrIn.Rule.BodyRegex # "" /\ ~ReadFails) =>
             vrOut = [Status |-> IF PatternFails THEN "unexpected-body-regex" ELSE "valid",
                      Err |-> NilErr]
       /\ (~StatusDiffers /\ ~HeaderDiffers /\ vrIn.Rule.BodyRegex = "") =>
             vrOut = [Status |-> "valid", Err |-> NilErr]

\* the status code is right, a required header is wrong and the pattern does
\* not match the body either: the header decides
C18_Witness ==
    /\ Validated /\ ~StatusDiffers /\ HeaderDiffers /\ PatternFails /\ ~ReadFails
    /\ vrOut.Status = "unexpected-header-value"

\* C19: with a body pattern, at most responseBodyLimit bytes are read and the
\* outcome is that of matching the pattern against the first
\* min(limit, length) bytes of the body.
C19_PatternAgainstLimitedPrefix ==
    (Validated /\ ~StatusDiffers /\ ~HeaderDiffers /\ vrIn.Rule.BodyRegex # "") =>
       /\ Len(LimitRead(vrIn.Resp.Body, vrIn.Limit).Data) <= (IF vrIn.Limit > 0 THEN vrIn.Limit ELSE 0)
       /\ ~ReadFails =>
             /\ vrOut.Status \in {"valid", "unexpected-body-regex"}
             /\ (vrOut.Status = "valid") <=> RegexpMatch(vrIn.Rule.BodyRegex, BodyPrefix)

\* body "abcdef", limit 3, pattern "abcd": the fourth byte is not read
C19_Witness ==
    /\ Validated /\ ~StatusDiffers /\ ~HeaderDiffers
    /\ vrIn.Resp.Body = [Data |-> "abcdef", FailAt |-> 0, ErrKind |-> "none"]
    /\ vrIn.Limit = 3 /\ vrIn.Rule.BodyRegex = "abcd"
    /\ vrOut.Status = "unexpected-body-regex"

\* C20 (as the code has it): with the status code right, the outcome is
\* unexpected-header-value exactly when for some required header the expected
\* value differs from the first value of the response header of that name,
\* letter case of the name apart, an absent header reading as "".
C20_HeaderFirstValueAnyCase ==
    (Validated /\ ~StatusDiffers) =>
       ((vrOut.Status = "unexpected-header-value") <=> HeaderDiffers)

\* the rule asks for x-test, the server sent X-Test with that value first and
\* another value after it
C20_Witness ==
    /\ Validated /\ ~StatusDiffers
    /\ vrIn.Rule.Headers = [k \in {"x-test"} |-> "value"]
    /\ vrIn.Resp.Header = [k \in {"X-Test"} |-> <<"value", "bad">>]
    /\ vrIn.Rule.BodyRegex = ""
    /\ vrOut.Status = "valid"

\* C20 as stated: a required key that differs only in letter case from the
\* header the server sent does not match.
C20_HeaderKeyCaseSensitive ==
    (Validated /\ ~StatusDiffers) =>
       \A k \in DOMAIN vrIn.Rule.Headers :
          (/\ k \notin DOMAIN vrIn.Resp.Header
           /\ \E hk \in DOMAIN vrIn.Resp.Header : ToLower(hk) = ToLower(k))
          => vrOut.Status = "unexpected-header-value"

(* ------------------------------ Engine: workers ------------------------- *)
\* C17: the number of probes in flight at the same time, over all endpoints,
\* never exceeds settings.max-workers-count.
C17_InFlightWithinMaxWorkers == Cardinality(inflight) <= MaxWorkersCount

(* ---------------------------- Engine: cancellation ---------------------- *)
\* C14: once the cancellation signal has fired no endpoint loop begins a tick:
\* a loop waiting on its timer returns without another tick, a loop that is
\* mid-tick returns at its next select.
C14_NoTickAfterCancel ==
    [][\A ep \in Endpoints : cancelled => ticks'[ep].n = ticks[ep].n]_vars

(* ------------------------- Engine: panicking subscribers ---------------- *)
\* C12: a panic in a subscriber's OnResult is recovered by notify: no loop
\* dies of it; the loop goes on with the subscribers after the panicking one,
\* so that once notify has returned every subscriber has been called with the
\* Result; the Result whose delivery panicked is in the Store until a later
\* Result of its key replaces it; and the loop is at the subscriber after the
\* panicking one, from where it goes on to the next route and the next tick.
C12_SubscriberPanicRecovered ==
    /\ \A ep \in Endpoints : pc[ep] # "crashed"
    /\ \A n \in ehist.notified : \A sb \in Range(n.subs) :
          Occurrences(SeenOf(sb, TargetOf(n.r)), n.r) = 1
    /\ \A x \in ehist.recovered :
          /\ keyOf(x[2]) \in DOMAIN items
          /\ items[keyOf(x[2])].At >= x[2].At
          /\ x[2] \in Delivered \/ InNotify(x[2])
    /\ \A ep \in Endpoints :
          (pc[ep] = "deliver" /\ items[keyOf(res[ep])] = res[ep]) =>
             \A i \in 1..(subIdx[ep] - 1) : Occurrences(SeenOf(subs[i], TargetOf(res[ep])), res[ep]) = 1

\* s1, the first subscriber, panicked at every Result; s2 was still called
\* with the Results of both routes of ep1 and with those of two ticks of ep2
C12_Witness ==
    /\ env.panicky = {"s1"}
    /\ Cardinality(ehist.recovered) >= 4
    /\ \A x \in ehist.recovered : x[1] = "s1" /\ Occurrences(SeenOf("s2", TargetOf(x[2])), x[2]) = 1
    /\ \E x, y \in ehist.recovered :
          /\ x[2].Endpoint = "ep1" /\ y[2].Endpoint = "ep1" /\ x[2].Route = "r1" /\ y[2].Route = "r2"
          /\ y[2].At > x[2].At
    /\ \E x, y \in ehist.recovered :
          x[2].Endpoint = "ep2" /\ y[2].Endpoint = "ep2" /\ y[2].At > x[2].At

(* ------------------------------ Engine: Start --------------------------- *)
StartReturned == pc["main"] = "returned"
LoopsReturned == \A ep \in env.configured : pc[ep] = "stopped"

\* C13: Start has not returned unless the cancellation signal has fired and
\* every endpoint loop has returned; and once the signal has fired, probes in
\* flight completing, Start returns eventually, with no endpoint configured too.
C13_StartReturnsAfterLoops ==
    /\ [](StartReturned => (cancelled /\ LoopsReturned))
    /\ (cancelled ~> StartReturned)

\* Start returned after both loops had probed and returned
C13_Witness ==
    /\ StartReturned
    /\ env.configured = Endpoints
    /\ \A ep \in Endpoints : ticks[ep].n > 0 /\ pc[ep] = "stopped"

(* ------------------------------ Engine: progress ------------------------ *)
\* the Store holds a Result of the route and s1 has received one
HasResult(ep, route) ==
    /\ \E k \in DOMAIN items : items[k].Endpoint = ep /\ items[k].Route = route
    /\ \E tg \in DOMAIN seen["s1"] : \E i \in 1..Len(seen["s1"][tg]) :
          seen["s1"][tg][i].Endpoint = ep /\ seen["s1"][tg][i].Route = route
AllRoutesHaveResult(ep) == \A i \in 1..Len(RoutesOf(ep)) : HasResult(ep, RoutesOf(ep)[i])
FirstTickDone(ep) == ticks[ep].n >= 1 /\ pc[ep] = "wait"

\* C11: whatever the loop of one endpoint does, a probe of it never completing
\* included, the loop of every other endpoint ticks and, under fairness, a
\* Result of each of its routes gets into the Store and to the subscriber.
C11_OtherEndpointsProgress ==
    <>(\A ep \in Endpoints \ {env.slow} : FirstTickDone(ep) /\ AllRoutesHaveResult(ep))

\* the other endpoint has all its Results while a probe of the slow one is
\* still in flight
C11_Witness ==
    /\ \E x \in inflight : x[1] = env.slow
    /\ \A ep \in Endpoints \ {env.slow} : FirstTickDone(ep) /\ AllRoutesHaveResult(ep)

\* C16: under fairness, probes completing and the context never cancelled,
\* the first tick of every endpoint comes to its end, and at its end every
\* route of the endpoint has a Result in the Store, delivered to the
\* subscriber registered before Start.
C16_AllRoutesWithinFirstTick ==
    /\ <>(\A ep \in Endpoints : FirstTickDone(ep))
    /\ [](\A ep \in Endpoints : FirstTickDone(ep) => AllRoutesHaveResult(ep))

\* both routes of ep1 and the route of ep2 have their Results, each loop
\* having ticked once
C16_Witness ==
    /\ \A ep \in Endpoints : ticks[ep].n = 1 /\ FirstTickDone(ep) /\ AllRoutesHaveResult(ep)
    /\ Cardinality(DOMAIN items) = TotalRoutes

(* ------------------------------ Engine: intervals ----------------------- *)
Running(ep) == pc[ep] \notin {"off", "init"}

\* C15: a loop runs with the configured interval, or with 30 s when that is
\* zero or negative; its first tick begins no earlier than the jitter after
\* the loop began, every later tick no earlier than one interval after the
\* tick before it, and two consecutive Results of a target are at least one
\* interval apart.
C15_TicksOneIntervalApart ==
    \A ep \in Endpoints : Running(ep) =>
       /\ loop[ep].interval = (IF env.interval <= 0 THEN 30 ELSE env.interval)
       /\ loop[ep].jit >= 0 /\ 10 * loop[ep].jit < loop[ep].interval
       /\ ticks[ep].n = 1 => ticks[ep].at >= loop[ep].since + loop[ep].jit
       /\ ticks[ep].n >= 2 => ticks[ep].at >= ticks[ep].prev + loop[ep].interval
       /\ \A tg \in DOMAIN seen["s1"] : \A i \in 1..(Len(seen["s1"][tg]) - 1) :
             seen["s1"][tg][i].Endpoint = ep =>
                seen["s1"][tg][i + 1].At >= seen["s1"][tg][i].At + loop[ep].interval

\* no interval configured: the loop waited a jitter of 2 s, ticked, and ticked
\* again 30 s later or more; s1 has two Results of a target
C15_Witness ==
    \E ep \in Endpoints :
       /\ env.interval = 0 /\ Running(ep)
       /\ loop[ep].jit = 2
       /\ ticks[ep].n = 2
       /\ \E tg \in DOMAIN seen["s1"] : Len(seen["s1"][tg]) = 2

(* ------------------------------------------------------------------------
   Validate, the transport and the checkers
   ------------------------------------------------------------------------ *)
ValidateDone == vaOut # NoValidateOutput
RequestSent == ValidateDone /\ vaOut.Req.Sent
TransportFailed == RequestSent /\ vaIn.Net.Kind = "error"
TransportSucceeded == RequestSent /\ vaIn.Net.Kind = "response"
TargetIsHTTPS == SchemeOf(vaIn.RC) = "https"

\* the read of the body for the pattern check was reached and failed
BodyReadFailed ==
    /\ TransportSucceeded
    /\ Len(vaIn.Validation) > 0
    /\ vaIn.Validation[1].StatusCode = vaIn.Net.StatusCode
    /\ \A k \in DOMAIN vaIn.Validation[1].Headers :
          HeaderGet(vaIn.Net.Header, k) = vaIn.Validation[1].Headers[k]
    /\ vaIn.Validation[1].BodyRegex # ""
    /\ LimitRead(vaIn.Net.Body, vaIn.RC.ResponseBodyLimit).Err # "none"

\* C21: when reading the body for the pattern check fails, Validate returns
\* request-execution-timeout for a read error that is a deadline or timeout and
\* request-execution-error for any other, and in both cases returns the read
\* error itself.
C21_BodyReadFailureClassified ==
    BodyReadFailed =>
        /\ vaOut.Ret.Status =
              IF vaIn.Net.Body.ErrKind \in {"timeout", "deadline"}
              THEN "request-execution-timeout" ELSE "request-execution-error"
        /\ vaOut.Ret.Err = BodyReadError(vaIn.Net.Body.ErrKind).Text
        /\ vaOut.Ret.Err # NilErr

C21_Witness ==
    /\ BodyReadFailed
    /\ vaIn.Net.Body.ErrKind = "deadline"
    /\ vaOut.Ret.Status = "request-execution-timeout"

\* the error is a deadline or a timeout
DeadlineOrTimeout(e) == e.Timeout \/ e.Type = "context.DeadlineExceeded"

\* C22: on a transport error, an HTTPS target gets the TLS checker's label when
\* the checker recognises the error; otherwise, and for every non-HTTPS target
\* (for which the TLS checker is not consulted), the status is
\* request-execution-timeout for a deadline or timeout and
\* invalid-request-execution for anything else.  The return carries the elapsed
\* duration, the error and no TLS report.
C22_TransportErrorClassifiedInOrder ==
    TransportFailed =>
        /\ vaOut.Ret.Status =
              IF TargetIsHTTPS /\ CheckHandshakeError(vaIn.Net).Ok
              THEN CheckHandshakeError(vaIn.Net).Status
              ELSE IF DeadlineOrTimeout(vaIn.Net) THEN "request-execution-timeout"
              ELSE "invalid-request-execution"
        /\ (~TargetIsHTTPS => "CheckHandshakeError" \notin vaOut.Ret.Calls)
        /\ vaOut.Ret.Duration = vaIn.Net.Elapsed
        /\ vaOut.Ret.Err = vaIn.Net.Text
        /\ vaOut.Ret.TLS = NilReport

C22_Witness ==
    /\ TransportFailed
    /\ TargetIsHTTPS
    /\ vaIn.Net.Timeout
    /\ vaOut.Ret.Status = "invalid-tls-chain"

\* C24: Validate returns a TLS report exactly when the request was sent and
\* answered, inspection was requested, the scheme is https and the response
\* has a TLS connection state.
C24_ReportIffInspectedHTTPS ==
    ValidateDone =>
        ((~vaOut.Ret.TLS.Nil) <=>
            /\ TransportSucceeded
            /\ vaIn.CheckCerts
            /\ TargetIsHTTPS
            /\ vaIn.Net.CS.HasTLS)

C24_Witness ==
    /\ ValidateDone
    /\ ~vaOut.Ret.TLS.Nil
    /\ vaOut.Ret.Status = "request-execution-error"

\* C25: when the request was answered, a nil rule gives status valid with no
\* error whatever the response, and ValidateResponse is not called; a rule
\* gives exactly the status and error of ValidateResponse.
C25_NilRuleValidElseDelegated ==
    TransportSucceeded =>
        IF Len(vaIn.Validation) = 0
        THEN /\ vaOut.Ret.Status = "valid"
             /\ vaOut.Ret.Err = NilErr
             /\ "ValidateResponse" \notin vaOut.Ret.Calls
        ELSE /\ "ValidateResponse" \in vaOut.Ret.Calls
             /\ vaOut.Ret.Status =
                   ValidateResponse(vaIn.Net, vaIn.RC.ResponseBodyLimit, vaIn.Validation[1]).Status
             /\ vaOut.Ret.Err =
                   ValidateResponse(vaIn.Net, vaIn.RC.ResponseBodyLimit, vaIn.Validation[1]).Err

C25_Witness ==
    /\ TransportSucceeded
    /\ Len(vaIn.Validation) = 0
    /\ vaIn.Net.StatusCode = 500
    /\ vaIn.Net.Body.ErrKind = "other"
    /\ vaOut.Ret.Status = "valid"

\* what the configuration says of a request URL and of a proxy URL: the port
\* written in it, else the scheme's default
PortWritten(url) ==
    IF url = "HTTPS://example.org:8443/health" THEN "8443"
    ELSE IF url = "http://example.org:8080/health" THEN "8080"
    ELSE IF url = "https://example.org" THEN "443"
    ELSE "80"

ProxyAddress(proxy) ==
    IF proxy = "http://proxy.local:3128" THEN "proxy.local:3128" ELSE "proxy.local:80"

\* C26: for a route with an override IP the connection is dialed to the
\* override IP at the URL's port (443 for https and 80 for http when the URL
\* names none), and the Host header and the TLS server name are the URL's
\* host name.
C26_OverrideDialsIPKeepsHost ==
    (RequestSent /\ vaIn.Route.TargetIP # "") =>
        /\ vaOut.Req.Dial = vaIn.Route.TargetIP \o ":" \o PortWritten(vaIn.RC.URL)
        /\ vaOut.Req.Host = "example.org"
        /\ vaOut.Req.ServerName = "example.org"

\* C27: for a route with a proxy URL the connection is dialed to the proxy's
\* host and port, with or without an override IP; a route without a proxy URL
\* sets no proxy.
C27_ProxyRoutesDialProxy ==
    RequestSent =>
        IF vaIn.Route.ProxyUrl # ""
        THEN /\ vaOut.Req.Proxy = ProxyAddress(vaIn.Route.ProxyUrl)
             /\ vaOut.Req.Dial = ProxyAddress(vaIn.Route.ProxyUrl)
        ELSE vaOut.Req.Proxy = ""

Classified == tcOut.Method = "CheckHandshakeError"
Inspected == tcOut.Method = "Inspect"

\* the error is an x509 verification failure, or a *url.Error around an error
\* whose text names tls, certificate or handshake
TLSRelated(e) ==
    \/ e.Type \in {"x509.CertificateInvalidError:Expired", "x509.CertificateInvalidError",
                   "x509.UnknownAuthorityError", "x509.HostnameError"}
    \/ e.URLError /\ \E sub \in {"tls", "certificate", "handshake"} : Contains(ToLower(e.Text), sub)

\* C28: CheckHandshakeError returns matched = true exactly with a non-empty
\* label, that label is one of the TLS taxonomy, and an error that is not TLS
\* related (connection refused, a plain deadline exceeded) gets the empty label
\* and matched = false.
C28_MatchedIffTLSLabel ==
    Classified =>
        /\ tcOut.Ok <=> tcOut.Status # ""
        /\ tcOut.Ok => tcOut.Status \in TLSTaxonomy
        /\ ~TLSRelated(tcIn.Err) => (tcOut.Status = "" /\ ~tcOut.Ok)

C28_Witness ==
    /\ Classified
    /\ tcIn.Err.URLError
    /\ tcIn.Err.Text = "dial tcp: connection refused"
    /\ ~tcOut.Ok

\* the chain Inspect reports: the first verified chain when there is one and
\* it is not empty, else the peer certificate list
ReportedChain(cs) ==
    IF Len(cs.VerifiedChains) > 0 /\ Len(cs.VerifiedChains[1]) > 0
    THEN cs.VerifiedChains[1] ELSE cs.PeerCertificates

\* C30: without TLS state Inspect reports hadTLS = false and no certificates;
\* with it, hadTLS = true, chainValid is true exactly when there is at least
\* one verified chain, and the certificates are those of the first verified
\* chain when it is not empty, else of the peer list, at positions 0, 1, ...
\* in order.
C30_InspectReportsChain ==
    Inspected =>
        /\ ~tcOut.Report.Nil
        /\ tcOut.Report.HadTLS = tcIn.CS.HasTLS
        /\ ~tcIn.CS.HasTLS => tcOut.Report.Certificates = <<>>
        /\ tcIn.CS.HasTLS =>
              /\ tcOut.Report.ChainValid = (Len(tcIn.CS.VerifiedChains) >= 1)
              /\ Len(tcOut.Report.Certificates) = Len(ReportedChain(tcIn.CS))
              /\ \A i \in 1..Len(tcOut.Report.Certificates) :
                    /\ tcOut.Report.Certificates[i].Position = i - 1
                    /\ tcOut.Report.Certificates[i].SerialHex = ReportedChain(tcIn.CS)[i].Serial
                    /\ tcOut.Report.Certificates[i].CommonName = ReportedChain(tcIn.CS)[i].CN

C30_Witness ==
    /\ Inspected
    /\ tcIn.CS.HasTLS
    /\ tcIn.CS.VerifiedChains = <<>>
    /\ ~tcOut.Report.ChainValid
    /\ Len(tcOut.Report.Certificates) = 2

\* the Result probeOnce builds from what Validate returned, and the status
\* label WDMetrics exports for it
ResultOfValidate == MkResult("ep1", "r1", vaOut.Ret.Status, vaOut.Ret.Duration, vaOut.Ret.Err,
                             vaOut.Ret.TLS, now)
ExportedStatus == lblAllOf(ResultOfValidate).status

UnknownAuthorityFailure ==
    /\ TransportFailed
    /\ TargetIsHTTPS
    /\ vaIn.Net.Type = "x509.UnknownAuthorityError"

\* C29: a probe whose handshake fails on a certificate signed by an unknown
\* authority is exported with status invalid-tls-unknown-authority.
C29_UnknownAuthorityExported ==
    UnknownAuthorityFailure => ExportedStatus = "invalid-tls-unknown-authority"

\* C36: when Validate returns a status with an error and no TLS report, the
\* validation series OnResult sets for the Result built from it carries that
\* status.
C36_FailedStatusIsExported ==
    (ValidateDone /\ vaOut.Ret.Err # NilErr /\ vaOut.Ret.TLS = NilReport) =>
        ExportedStatus = vaOut.Ret.Status

BadTarget(ep, routeKey) == ep \in env.badURL \/ routeKey \in env.badProxy
MadeBy(ep) == Range(ehist.made[ep]) \cup (IF res[ep] = NoResult THEN {} ELSE {res[ep]})

\* C23: for a target whose URL does not parse Validate returns invalid-url, and
\* for one whose proxy URL does not parse invalid-proxy-definition, with
\* duration 0, no TLS report and an error, and no request is dispatched; the
\* loop goes on: it stops only on cancellation, and when a tick is over every
\* route of the endpoint, the bad ones included, has a Result in the Store that
\* the subscriber has received.
C23_ConfigErrorEndsOnlyTheAttempt ==
    /\ \A ep \in Endpoints : \A r \in MadeBy(ep) :
          BadTarget(ep, r.Route) =>
              /\ r.Status = IF ep \in env.badURL THEN "invalid-url"
                            ELSE "invalid-proxy-definition"
              /\ r.Duration = 0
              /\ r.TLS = NilReport
              /\ r.Err # NilErr
    /\ \A x \in inflight : ~BadTarget(x[1], x[2])
    /\ \A ep \in Endpoints :
          /\ pc[ep] = "stopped" => cancelled
          /\ FirstTickDone(ep) => AllRoutesHaveResult(ep)

\* ep2, whose only route has a proxy URL that does not parse, has finished its
\* second tick: the Store holds invalid-proxy-definition for it and s1 has
\* received that Result twice, once per tick
C23_Witness ==
    /\ env.badProxy = {"r1"} /\ env.badURL = {}
    /\ ticks["ep2"].n = 2 /\ pc["ep2"] = "wait"
    /\ \E k \in DOMAIN items :
          /\ items[k].Endpoint = "ep2" /\ items[k].Route = "r1"
          /\ items[k].Status = "invalid-proxy-definition"
    /\ \E tg \in DOMAIN seen["s1"] :
          /\ Len(seen["s1"][tg]) = 2
          /\ \A i \in 1..2 : /\ seen["s1"][tg][i].Endpoint = "ep2"
                              /\ seen["s1"][tg][i].Status = "invalid-proxy-definition"

(* --------------------------- metrics: timestamp ------------------------- *)
\* the positions of OnResult after the timestamp gauge was set
AfterTimestamp == {"or_delV", "or_delD", "or_record", "or_setV", "or_setD", "or_certs", "or_setCerts"}

\* C31: once OnResult(r) has set the timestamp gauge, the gauge of r's base
\* label set is r.At, whatever r's status, error or TLS report; when no call
\* is running, after any sequence of OnResult calls and RebuildAll replays,
\* the gauge of every target is the completion time of the latest Result
\* applied for it, and no other base label set has a timestamp.
C31_TimestampIsLatestCompletion ==
    /\ pc["main"] \in AfterTimestamp =>
          /\ lblBaseOf(cur["main"]) \in DOMAIN ts
          /\ ts[lblBaseOf(cur["main"])] = cur["main"].At
    /\ Quiescent =>
          /\ \A k \in DOMAIN items :
                /\ lblBaseOf(items[k]) \in DOMAIN ts
                /\ ts[lblBaseOf(items[k])] = items[k].At
          /\ DOMAIN ts = {lblBaseOf(items[k]) : k \in DOMAIN items}

\* a Result with an error and no TLS report, completed at time 1, replaced an
\* earlier Result of its target completed at time 0: the gauge reads 1
C31_Witness ==
    /\ Quiescent /\ hist.lastOp = "onresult"
    /\ cur["main"].Err # NilErr /\ cur["main"].TLS = NilReport
    /\ cur["main"].At = 1
    /\ hist.superseded = "labels-changed"
    /\ ts[lblBaseOf(cur["main"])] = 1

(* ---------------------------- metrics: is_error ------------------------- *)
Flipped(l) == [l EXCEPT !.is_error = IF l.is_error = "true" THEN "false" ELSE "true"]
ResultSeries == (DOMAIN val) \cup (DOMAIN dur)

\* C32: the is_error label OnResult computes is "true" exactly when the Result
\* carries an error, whatever the derived status; before the new label set of
\* a key is recorded the series of its previous label set are gone; and when
\* no call is running the validation and duration series of every target
\* carry the is_error of its latest Result and no series of the target with
\* the other is_error value is left.
C32_IsErrorFollowsErr ==
    /\ pc["main"] \in AfterTimestamp =>
          (lbl["main"].is_error = "true" <=> cur["main"].Err # NilErr)
          /\ lbl["main"].is_error \in {"true", "false"}
    /\ (pc["main"] = "or_record" /\ baseKeyOf(cur["main"]) \in DOMAIN lastByKey) =>
          lastByKey[baseKeyOf(cur["main"])] \notin ResultSeries
    /\ Quiescent =>
          \A k \in DOMAIN items : \A l \in ResultSeries :
             BaseOf(l) = lblBaseOf(items[k]) =>
                /\ l.is_error = "true" <=> items[k].Err # NilErr
                /\ Flipped(l) \notin ResultSeries

\* a Result with an error follows one without for the same target, both with
\* the derived status invalid-tls-chain: only is_error differs, and the series
\* labelled is_error = "false" have been deleted
C32_Witness ==
    /\ pc["main"] = "or_record" /\ hist.lastOp = "onresult"
    /\ baseKeyOf(cur["main"]) \in DOMAIN lastByKey
    /\ lastByKey[baseKeyOf(cur["main"])] = Flipped(lbl["main"])
    /\ lbl["main"].is_error = "true" /\ lbl["main"].status = "invalid-tls-chain"
    /\ Flipped(lbl["main"]) \notin ResultSeries

(* --------------------------- metrics: build info ------------------------ *)
\* C33: the build-info gauge is 1 in every state, through every step of
\* OnResult and of RebuildAll; when RebuildAll has made its four Reset calls
\* the timestamp, validation, duration and certificate vectors are empty and
\* the build-info gauge still is 1.
C33_BuildInfoStaysOne ==
    /\ buildInfo = 1
    /\ pc["main"] = "rb_clearLast" =>
          ts = EmptyMap /\ val = EmptyMap /\ dur = EmptyMap /\ cert = EmptyMap

\* RebuildAll has just reset vectors that held series of two targets, among
\* them certificate series
C33_Witness ==
    /\ pc["main"] = "rb_clearLast"
    /\ Cardinality(DOMAIN hist.exported.val) = 2
    /\ hist.exported.cert # EmptyMap
    /\ ts = EmptyMap /\ cert = EmptyMap
    /\ buildInfo = 1

(* ------------------------- Engine: logOnTransition ---------------------- *)
\* the error text of a Result, none for a Result without error
ErrorText(r) == IF r.Err = NilErr THEN "" ELSE r.Err

\* C34: lastResults holds, per key, the error text of the key's previous
\* Result; the first Result of a key is logged as started; after it,
\* logOnTransition prints nothing exactly when the error text is that of the
\* previous Result of the key (the same failure again, or healthy again), and
\* prints an error, recovered or error-updated entry when it changed.
C34_LogOnlyOnTransition ==
    /\ \A k \in DOMAIN items : k \in DOMAIN lastResults /\ lastResults[k] = ErrorText(items[k])
    /\ lgOut # NoLog =>
          /\ lgOut.Prev = NoResult => lgOut.Entry = "probe STARTED"
          /\ lgOut.Prev # NoResult =>
                /\ lgOut.Entry = "none" <=> ErrorText(lgOut.Prev) = ErrorText(lgOut.R)
                /\ (lgOut.Prev.Err = NilErr /\ lgOut.R.Err # NilErr) => lgOut.Entry = "probe ERROR"
                /\ (lgOut.Prev.Err # NilErr /\ lgOut.R.Err = NilErr) =>
                      lgOut.Entry = "probe RECOVERED"
                /\ (lgOut.Prev.Err # NilErr /\ lgOut.R.Err # NilErr
                        /\ lgOut.Prev.Err # lgOut.R.Err) =>
                      lgOut.Entry = "probe ERROR UPDATED"

\* the same failure of a target twice in a row: the second call prints nothing
C34_Witness ==
    /\ lgOut.R.Err = "dial tcp: connection refused"
    /\ lgOut.Prev.Err = lgOut.R.Err
    /\ keyOf(lgOut.Prev) = keyOf(lgOut.R)
    /\ lgOut.Entry = "none"

(* ------------------- RebuildAll while the loops deliver ------------------ *)
\* the series a Result sets: the timestamp of its base labels, the validation
\* gauge of its full label set at 1 and the duration gauge at its Duration
SeriesReflect(r) ==
    /\ lblBaseOf(r) \in DOMAIN ts /\ ts[lblBaseOf(r)] = r.At
    /\ SeriesOf(val, lblBaseOf(r)) = {lblAllOf(r)}
    /\ SeriesOf(dur, lblBaseOf(r)) = {lblAllOf(r)}
    /\ dur[lblAllOf(r)] = r.Duration

\* C35: with RebuildAll running while the endpoint loops deliver Results, once
\* RebuildAll has returned and no OnResult call is in progress, the timestamp,
\* validation and duration series of every key in the Store are those of the
\* Result the Store holds for it.
C35_SeriesReflectLatestStored ==
    AllQuiet => \A k \in DOMAIN items : SeriesReflect(items[k])

(* --------------------------- the initial jitter -------------------------- *)
\* C38: for every interval intervalFor returns, runEndpointLoop gets past the
\* computation of its initial jitter without a panic, with the non-positive
\* intervals replaced by 30 s and a jitter of at least zero and below a tenth
\* of the interval.
C38_JitterNeverCrashes ==
    \A ep \in env.configured :
       pc[ep] # "init" =>
          /\ pc[ep] # "crashed"
          /\ DurPositive(env.interval) => loop[ep].interval = env.interval
          /\ ~DurPositive(env.interval) => loop[ep].interval = Dur(DefaultInterval, 0)
          /\ ~DurLess(loop[ep].jit, Dur(0, 0))
          /\ DurLess(loop[ep].jit, DurDiv10(loop[ep].interval))

(* ------------------------- the size of the Store ------------------------- *)
EntriesOf(ep) == {k \in DOMAIN items : items[k].Endpoint = ep}
PutsOf(ep) == {r \in ehist.put : r.Endpoint = ep}

\* C39: while the Engine runs, the Store holds at most one Result for each
\* configured (endpoint, route) pair, so no more Results than there are pairs:
\* a tick overwrites the entry of its target, and an endpoint with one route
\* that has been probed, however often, has exactly one entry.
C39_StoreBoundedByTargets ==
    /\ Cardinality(DOMAIN items) <= TotalRoutes
    /\ \A ep \in Endpoints :
          /\ Cardinality(EntriesOf(ep)) <= Len(RoutesOf(ep))
          /\ \A k1, k2 \in EntriesOf(ep) : items[k1].Route = items[k2].Route => k1 = k2
    /\ PutsOf("ep2") # {} => Cardinality(EntriesOf("ep2")) = 1

\* ep2, which has one route, has been probed twice with different outcomes and
\* the Store holds one entry for it, the later one
C39_Witness ==
    /\ Cardinality(PutsOf("ep2")) = 2
    /\ \E r1, r2 \in PutsOf("ep2") : r1.Status # r2.Status
    /\ Cardinality(EntriesOf("ep2")) = 1
    /\ \A k \in EntriesOf("ep2") : \A r \in PutsOf("ep2") : r.At <= items[k].At

====
